---- MODULE Spec2Model ----
(***************************************************************************)
(* Graph assembly and analytics of CorporateGraphVisualizer                *)
(* (src/corporate_graph_visualizer.py).                                    *)
(*                                                                         *)
(* Python values are modelled as follows.                                  *)
(*  - An entity code cell is a TLA+ string; the float NaN that pandas      *)
(*    yields for an empty CSV cell is the reserved value NaN.              *)
(*  - A numeric-looking cell (Percent Owned, Principal Amount, Attribute   *)
(*    Value) is a tagged value: PyStr(s) with s a sequence of characters,  *)
(*    PyNum(n) with n an integer, or PyNaN.                                *)
(*  - A row is a function from its column names to cells, a DataFrame a    *)
(*    sequence of rows, a dict a function from its keys.                   *)
(***************************************************************************)
EXTENDS Integers, Sequences, FiniteSets, TLC

VARIABLES
    disk,     \* company -> data type -> [readable, rows]: the CSV files found under base_path
    graphs,   \* self.graphs: company -> assembled nx.DiGraph
    df,       \* the DataFrame handed to process_*_relationships
    edges,    \* the edge list process_*_relationships returned
    sizes,    \* the last get_node_sizes call: its graph G and its outcome
    call,     \* the last analytics or view call: the operation, its argument, its outcome
    work      \* company -> the create_company_graph call in progress: its position and locals

vars == <<disk, graphs, df, edges, sizes, call, work>>

(***************************************************************************)
(* Bounds of the model.                                                    *)
(***************************************************************************)
MaxLen == 5        \* longest Percent Owned / Principal Amount string
MaxRoster == 2     \* most rows of a roster file
MaxEdgeRows == 2   \* most rows of the ownership and transactions files together
MaxAttr == 2       \* most rows of an attributes file

(***************************************************************************)
(* Python values.                                                          *)
(***************************************************************************)
NaN == "<NaN>"
PyStr(s) == [t |-> "str", s |-> s, n |-> 0]
PyNum(n) == [t |-> "num", s |-> <<>>, n |-> n]
PyNaN == [t |-> "nan", s |-> <<>>, n |-> 0]
EmptyDict == [k \in {} |-> ""]

\* pd.isna on a code cell
isna(x) == x = NaN

\* isinstance(x, str) on a numeric-looking cell
isstr(x) == x.t = "str"

\* row.get(col, default)
RowGet(row, col, default) == IF col \in DOMAIN row THEN row[col] ELSE default

\* dict.update: the new entries win
Update(old, new) == new @@ old

(***************************************************************************)
(* str methods and float() on character sequences.                         *)
(***************************************************************************)
Digits == {"0", "1", "6"}
DigitVal(c) == IF c = "1" THEN 1 ELSE IF c = "6" THEN 6 ELSE 0

RECURSIVE rstrip(_, _)
rstrip(s, ch) ==
    IF s # <<>> /\ s[Len(s)] = ch THEN rstrip(SubSeq(s, 1, Len(s) - 1), ch) ELSE s

RECURSIVE lstrip(_, _)
lstrip(s, ch) ==
    IF s # <<>> /\ s[1] = ch THEN lstrip(Tail(s), ch) ELSE s

\* s.replace(ch, '')
RECURSIVE remove(_, _)
remove(s, ch) ==
    IF s = <<>> THEN <<>>
    ELSE IF Head(s) = ch THEN remove(Tail(s), ch)
         ELSE <<Head(s)>> \o remove(Tail(s), ch)

RECURSIVE DecVal(_)
DecVal(s) == IF s = <<>> THEN 0 ELSE 10 * DecVal(SubSeq(s, 1, Len(s) - 1)) + DigitVal(s[Len(s)])

AllDigits(s) == s # <<>> /\ \A i \in 1..Len(s) : s[i] \in Digits

\* float(s): surrounding blanks are ignored, an optional sign, then digits;
\* anything else raises ValueError (ok = FALSE).
floatStr(s) ==
    LET body == rstrip(lstrip(s, " "), " ")
        neg == body # <<>> /\ Head(body) = "-"
        mag == IF neg THEN Tail(body) ELSE body
    IN  IF AllDigits(mag)
        THEN [ok |-> TRUE, v |-> IF neg THEN 0 - DecVal(mag) ELSE DecVal(mag)]
        ELSE [ok |-> FALSE, v |-> 0]

(***************************************************************************)
(* Field normalization (inline in the two process_* methods).              *)
(***************************************************************************)
\* percent_value without the rstrip('%')
percent_value_keep_suffix(percent_owned) ==
    IF isstr(percent_owned)
    THEN LET r == floatStr(percent_owned.s)
         IN  IF r.ok THEN PyNum(r.v) ELSE PyNum(0)
    ELSE percent_owned

\* lines 130-137: trailing '%' characters are stripped, then float()
percent_value(percent_owned) ==
    IF isstr(percent_owned)
    THEN LET r == floatStr(rstrip(percent_owned.s, "%"))
         IN  IF r.ok THEN PyNum(r.v) ELSE PyNum(0)
    ELSE percent_owned

\* amount_value without the replace(',', '')
amount_value_keep_commas(amount) ==
    IF isstr(amount)
    THEN LET r == floatStr(amount.s)
         IN  IF r.ok THEN PyNum(r.v) ELSE PyNum(0)
    ELSE amount

\* lines 174-180: commas are removed, then float(); a non-string is kept as it is
amount_value(amount) ==
    IF isstr(amount)
    THEN LET r == floatStr(remove(amount.s, ","))
         IN  IF r.ok THEN PyNum(r.v) ELSE PyNum(0)
    ELSE amount

\* OwnershipSkipped without the pd.isna test
OwnershipSkipped_no_isna(row) == RowGet(row, "Owner Entity Code", "") = ""

\* line 126
OwnershipSkipped(row) ==
    LET parent == RowGet(row, "Owner Entity Code", "")
    IN  isna(parent) \/ parent = ""

\* lines 122-148: the (parent, child, edge_attrs) tuple of a row that is kept
OwnershipEdge(row, company_name) ==
    <<RowGet(row, "Owner Entity Code", ""),
      RowGet(row, "Owned Entity Code", ""),
      [relationship_type |-> "ownership",
       percent_owned |-> percent_value(RowGet(row, "Percent Owned", PyStr(<<"0", "%">>))),
       share_class |-> RowGet(row, "Share Class", ""),
       ownership_type |-> RowGet(row, "Ownership Type", ""),
       entry_date |-> RowGet(row, "Entry As Shareholder Date", ""),
       company |-> company_name]>>

process_ownership_relationships(ownership_df, company_name) ==
    LET kept == SelectSeq(ownership_df, LAMBDA row : ~OwnershipSkipped(row))
    IN  [i \in 1..Len(kept) |-> OwnershipEdge(kept[i], company_name)]

\* line 170
TransactionSkipped(row) ==
    LET creditor == RowGet(row, "Creditor Entity Code", "")
        debtor == RowGet(row, "Debtor Entity Code", "")
    IN  isna(creditor) \/ isna(debtor) \/ creditor = "" \/ debtor = ""

\* lines 166-193: the (creditor, debtor, edge_attrs) tuple of a row that is kept
TransactionEdge(row, company_name) ==
    <<RowGet(row, "Creditor Entity Code", ""),
      RowGet(row, "Debtor Entity Code", ""),
      [relationship_type |-> "transaction",
       transaction_type |-> RowGet(row, "Transaction Type", ""),
       amount |-> amount_value(RowGet(row, "Principal Amount", PyNum(0))),
       currency |-> RowGet(row, "Currency", "USD"),
       interest_rate |-> RowGet(row, "Interest Rate", ""),
       purpose |-> RowGet(row, "Purpose", ""),
       status |-> RowGet(row, "Status", ""),
       company |-> company_name]>>

process_transaction_relationships(transactions_df, company_name) ==
    LET kept == SelectSeq(transactions_df, LAMBDA row : ~TransactionSkipped(row))
    IN  [i \in 1..Len(kept) |-> TransactionEdge(kept[i], company_name)]

(***************************************************************************)
(* nx.DiGraph: nodes in insertion order, a data dict per node and per      *)
(* ordered pair.                                                           *)
(***************************************************************************)
EmptyGraph == [nodes |-> <<>>, node |-> EmptyDict, edge |-> EmptyDict]

NodeSet(G) == DOMAIN G.node
EdgeSet(G) == DOMAIN G.edge
has_edge(G, u, v) == <<u, v>> \in DOMAIN G.edge

\* add_node that leaves a node already there as it is
add_node_keep_first(G, n, attrs) ==
    IF n \in DOMAIN G.node
    THEN G
    ELSE [G EXCEPT !.nodes = Append(@, n), !.node = (n :> attrs) @@ @]

\* G.add_node(n, **attrs): a node already there has its data dict updated
add_node(G, n, attrs) ==
    IF n \in DOMAIN G.node
    THEN [G EXCEPT !.node[n] = Update(@, attrs)]
    ELSE [G EXCEPT !.nodes = Append(@, n), !.node = (n :> attrs) @@ @]

\* add_edge that leaves the data dict of a pair already there as it is
add_edge_keep_first(G, u, v, attrs) ==
    LET Gu == IF u \in DOMAIN G.node THEN G ELSE add_node(G, u, EmptyDict)
        Gv == IF v \in DOMAIN Gu.node THEN Gu ELSE add_node(Gu, v, EmptyDict)
    IN  IF <<u, v>> \in DOMAIN Gv.edge THEN Gv
        ELSE [Gv EXCEPT !.edge = (<<u, v>> :> attrs) @@ @]

\* G.add_edge(u, v, **attrs): missing endpoints become nodes with an empty
\* data dict; the data dict of the pair is created or updated
add_edge(G, u, v, attrs) ==
    LET Gu == IF u \in DOMAIN G.node THEN G ELSE add_node(G, u, EmptyDict)
        Gv == IF v \in DOMAIN Gu.node THEN Gu ELSE add_node(Gu, v, EmptyDict)
        old == IF <<u, v>> \in DOMAIN Gv.edge THEN Gv.edge[<<u, v>>] ELSE EmptyDict
    IN  [Gv EXCEPT !.edge = (<<u, v>> :> Update(old, attrs)) @@ @]

\* G.edges[u, v].update(attrs)
update_edge(G, u, v, attrs) == [G EXCEPT !.edge[<<u, v>>] = Update(@, attrs)]

(***************************************************************************)
(* create_company_graph                                                    *)
(***************************************************************************)
\* the order of file_patterns
FilePatterns == <<"structure", "ownership", "transactions", "attributes">>

\* a loader that gives up at the first file it cannot read
load_company_data_abort(files) ==
    LET failed == {i \in 1..Len(FilePatterns) :
                      FilePatterns[i] \in DOMAIN files /\ ~files[FilePatterns[i]].readable}
        upto == IF failed = {} THEN Len(FilePatterns)
                ELSE (CHOOSE i \in failed : \A j \in failed : i <= j) - 1
    IN  [k \in {FilePatterns[i] : i \in 1..upto} \cap DOMAIN files |-> files[k].rows]

\* lines 93-106: a file that exists and reads is loaded; a missing or
\* unreadable one is reported and left out of data
load_company_data(files) ==
    [k \in {x \in DOMAIN files : files[x].readable} |-> files[k].rows]

\* lines 226-240
NodeAttrs(row, company_name) ==
    [entity_name |-> RowGet(row, "Entity Name", ""),
     entity_type |-> RowGet(row, "Entity Type", ""),
     country |-> RowGet(row, "Country Of Incorporation", ""),
     region |-> RowGet(row, "Region", ""),
     line_of_business |-> RowGet(row, "Line Of Business", ""),
     complexity |-> RowGet(row, "Complexity", ""),
     descriptor |-> RowGet(row, "Descriptor", ""),
     effective_date |-> RowGet(row, "Effective Date", ""),
     company |-> company_name,
     jurisdiction |-> RowGet(row, "Jurisdiction", ""),
     local_currency |-> RowGet(row, "Local Currency", ""),
     functional_currency |-> RowGet(row, "Functional Currency", ""),
     reporting_currency |-> RowGet(row, "Reporting Currency", "")]

\* lines 221-242: one row of the roster
AddStructureRow(G, row, company_name) ==
    LET entity_code == RowGet(row, "Legal Entity Code (#)", "")
    IN  IF isna(entity_code) \/ entity_code = ""
        THEN G
        ELSE add_node(G, entity_code, NodeAttrs(row, company_name))

RECURSIVE AddStructure(_, _, _)
AddStructure(G, structure_df, company_name) ==
    IF structure_df = <<>> THEN G
    ELSE AddStructure(AddStructureRow(G, Head(structure_df), company_name),
                      Tail(structure_df), company_name)

\* lines 247-248
RECURSIVE AddOwnershipEdges(_, _)
AddOwnershipEdges(G, ownership_edges) ==
    IF ownership_edges = <<>> THEN G
    ELSE LET e == Head(ownership_edges)
         IN  AddOwnershipEdges(add_edge(G, e[1], e[2], e[3]), Tail(ownership_edges))

\* AddTransactionEdge that replaces the data dict of an existing edge
AddTransactionEdge_replace(G, creditor, debtor, attrs) ==
    IF has_edge(G, creditor, debtor)
    THEN [G EXCEPT !.edge[<<creditor, debtor>>] = attrs]
    ELSE add_edge(G, creditor, debtor, attrs)

\* lines 255-260: one transaction edge
AddTransactionEdge(G, creditor, debtor, attrs) ==
    IF has_edge(G, creditor, debtor)
    THEN update_edge(G, creditor, debtor, attrs)
    ELSE add_edge(G, creditor, debtor, attrs)

\* lines 253-260
RECURSIVE AddTransactionEdges(_, _)
AddTransactionEdges(G, transaction_edges) ==
    IF transaction_edges = <<>> THEN G
    ELSE LET e == Head(transaction_edges)
         IN  AddTransactionEdges(AddTransactionEdge(G, e[1], e[2], e[3]),
                                 Tail(transaction_edges))

\* An attribute bag is a dict in insertion order: keys lists the attribute
\* names in the order they were first set.
EmptyBag == [keys |-> <<>>, val |-> EmptyDict]
\* bag.setdefault(k, v): an entry already there is kept
SetDefault(bag, k, v) ==
    IF k \in DOMAIN bag.val THEN bag
    ELSE [keys |-> Append(bag.keys, k), val |-> (k :> v) @@ bag.val]

\* bag[k] = v
SetItem(bag, k, v) ==
    [keys |-> IF k \in DOMAIN bag.val THEN bag.keys ELSE Append(bag.keys, k),
     val |-> (k :> v) @@ bag.val]

\* AddAttributeRow without the test that entity_code is a node
AddAttributeRow_no_guard(G, row) ==
    LET entity_code == RowGet(row, "Entity Code", "")
        attr_name == RowGet(row, "Attribute Name", PyStr(<<>>))
        Gn == IF entity_code \in DOMAIN G.node THEN G
              ELSE [G EXCEPT !.nodes = Append(@, entity_code),
                             !.node = (entity_code :> EmptyDict) @@ @]
        data == Gn.node[entity_code]
        bag == IF "attributes" \in DOMAIN data THEN data["attributes"] ELSE EmptyBag
        entry == [value |-> RowGet(row, "Attribute Value", PyStr(<<>>)),
                  type |-> RowGet(row, "Value Type", "Text"),
                  category |-> RowGet(row, "Category", "General")]
    IN  [Gn EXCEPT !.node[entity_code] = ("attributes" :> SetItem(bag, attr_name, entry)) @@ @]

\* lines 266-279: one row of the attributes file
AddAttributeRow(G, row) ==
    LET entity_code == RowGet(row, "Entity Code", "")
    IN  IF entity_code \in DOMAIN G.node
        THEN LET attr_name == RowGet(row, "Attribute Name", PyStr(<<>>))
                 attr_value == RowGet(row, "Attribute Value", PyStr(<<>>))
                 data == G.node[entity_code]
                 bag == IF "attributes" \in DOMAIN data THEN data["attributes"] ELSE EmptyBag
                 entry == [value |-> attr_value,
                           type |-> RowGet(row, "Value Type", "Text"),
                           category |-> RowGet(row, "Category", "General")]
             IN  [G EXCEPT !.node[entity_code] =
                     ("attributes" :> SetItem(bag, attr_name, entry)) @@ @]
        ELSE G

RECURSIVE AddAttributes(_, _)
AddAttributes(G, attributes_df) ==
    IF attributes_df = <<>> THEN G
    ELSE AddAttributes(AddAttributeRow(G, Head(attributes_df)), Tail(attributes_df))

\* an assembly that applies the transaction records before the ownership
\* records
create_company_graph_transactions_first(files, company_name) ==
    LET data == load_company_data(files)
        G0 == EmptyGraph
        G1 == IF "structure" \in DOMAIN data
              THEN AddStructure(G0, data["structure"], company_name) ELSE G0
        G2 == IF "transactions" \in DOMAIN data
              THEN AddTransactionEdges(G1,
                       process_transaction_relationships(data["transactions"], company_name))
              ELSE G1
        G3 == IF "ownership" \in DOMAIN data
              THEN AddOwnershipEdges(G2,
                       process_ownership_relationships(data["ownership"], company_name))
              ELSE G2
        G4 == IF "attributes" \in DOMAIN data
              THEN AddAttributes(G3, data["attributes"]) ELSE G3
    IN  IF data = EmptyDict THEN EmptyGraph ELSE G4

\* lines 207-282
create_company_graph(files, company_name) ==
    LET data == load_company_data(files)
        G0 == EmptyGraph
        G1 == IF "structure" \in DOMAIN data
              THEN AddStructure(G0, data["structure"], company_name) ELSE G0
        G2 == IF "ownership" \in DOMAIN data
              THEN AddOwnershipEdges(G1,
                       process_ownership_relationships(data["ownership"], company_name))
              ELSE G1
        G3 == IF "transactions" \in DOMAIN data
              THEN AddTransactionEdges(G2,
                       process_transaction_relationships(data["transactions"], company_name))
              ELSE G2
        G4 == IF "attributes" \in DOMAIN data
              THEN AddAttributes(G3, data["attributes"]) ELSE G3
    IN  IF data = EmptyDict THEN EmptyGraph ELSE G4

(***************************************************************************)
(* get_node_sizes                                                          *)
(***************************************************************************)
min_size == 20
max_size == 100

\* str.lower(), character by character
UpperCase == <<"A", "B", "C", "D", "E", "F", "G", "H", "I", "J", "K", "L", "M", "N", "O", "P", "Q", "R", "S", "T", "U", "V", "W", "X", "Y", "Z">>
LowerCase == <<"a", "b", "c", "d", "e", "f", "g", "h", "i", "j", "k", "l", "m", "n", "o", "p", "q", "r", "s", "t", "u", "v", "w", "x", "y", "z">>
LowerChar(c) ==
    IF \E i \in 1..Len(UpperCase) : UpperCase[i] = c
    THEN LowerCase[CHOOSE i \in 1..Len(UpperCase) : UpperCase[i] = c]
    ELSE c
lower(s) == [i \in 1..Len(s) |-> LowerChar(s[i])]

\* a in b, for strings
contains(b, a) == \E i \in 1..(Len(b) - Len(a) + 1) : SubSeq(b, i, i + Len(a) - 1) = a

\* float(str(value).replace(',', '')): str() of a number reads back as that
\* number, str() of NaN is 'nan', which float() reads as NaN
floatOfValue(value) ==
    CASE value.t = "str" ->
             LET r == floatStr(remove(value.s, ","))
             IN  [ok |-> r.ok, v |-> PyNum(r.v)]
      [] value.t = "num" -> [ok |-> TRUE, v |-> value]
      [] value.t = "nan" -> [ok |-> TRUE, v |-> PyNaN]

\* lines 322-328: the loop over attrs.items() from position i on; attr_value
\* stays 0 until a matching name has a value that float() accepts.  A name
\* that is not a string (NaN) has no lower(): AttributeError.
RECURSIVE ScanAttrs(_, _, _)
ScanAttrs(bag, i, size_attribute) ==
    IF i > Len(bag.keys) THEN [raised |-> "none", v |-> PyNum(0)]
    ELSE LET attr_name == bag.keys[i]
         IN  IF ~isstr(attr_name) THEN [raised |-> "AttributeError", v |-> PyNum(0)]
             ELSE IF contains(lower(attr_name.s), lower(size_attribute))
                  THEN LET f == floatOfValue(bag.val[attr_name].value)
                       IN  IF f.ok THEN [raised |-> "none", v |-> f.v]
                           ELSE ScanAttrs(bag, i + 1, size_attribute)
                  ELSE ScanAttrs(bag, i + 1, size_attribute)

\* lines 314-330: the attr_value of one node
NodeValue(G, node, size_attribute) ==
    LET node_data == G.node[node]
    IN  IF "attributes" \in DOMAIN node_data
        THEN ScanAttrs(node_data["attributes"], 1, size_attribute)
        ELSE [raised |-> "none", v |-> PyNum(0)]

\* Python's > and < on floats: any comparison with NaN is False
gt(a, b) == a.t = "num" /\ b.t = "num" /\ a.n > b.n
lt(a, b) == a.t = "num" /\ b.t = "num" /\ a.n < b.n

\* max(values), min(values) of a non-empty list: the first element is kept
\* until a later one compares greater (smaller)
RECURSIVE pymax(_, _)
pymax(m, rest) ==
    IF rest = <<>> THEN m
    ELSE pymax(IF gt(Head(rest), m) THEN Head(rest) ELSE m, Tail(rest))

RECURSIVE pymin(_, _)
pymin(m, rest) ==
    IF rest = <<>> THEN m
    ELSE pymin(IF lt(Head(rest), m) THEN Head(rest) ELSE m, Tail(rest))

\* A size is a fraction num/den (den > 0) or NaN.
SizeNum(num, den) == [t |-> "num", num |-> num, den |-> den]
SizeNaN == [t |-> "nan", num |-> 0, den |-> 1]

\* lines 335-336: min_size + (max_size - min_size) * (v - lo) / (hi - lo), hi # lo
NormalizedSize(v, lo, hi) ==
    IF v.t = "nan" \/ lo.t = "nan" \/ hi.t = "nan" THEN SizeNaN
    ELSE LET d == hi.n - lo.n
         IN  SizeNum(min_size * d + (max_size - min_size) * (v.n - lo.n), d)

\* lines 338-340
DefaultSize == SizeNum(min_size + max_size, 2)

\* lines 308-342: the sizes dict, or the exception that ends the call
get_node_sizes(G, size_attribute) ==
    LET n == Len(G.nodes)
        scan == [i \in 1..n |-> NodeValue(G, G.nodes[i], size_attribute)]
        values == [i \in 1..n |-> scan[i].v]
    IN  IF \E i \in 1..n : scan[i].raised # "none"
        THEN [raised |-> "AttributeError", sizes |-> EmptyDict]
        ELSE IF n = 0
        THEN [raised |-> "ValueError", sizes |-> EmptyDict]
        ELSE LET hi == pymax(values[1], Tail(values))
                 lo == pymin(values[1], Tail(values))
             IN  IF gt(hi, PyNum(0))
                 THEN IF lo.t = "num" /\ hi.n - lo.n = 0
                      THEN [raised |-> "ZeroDivisionError", sizes |-> EmptyDict]
                      ELSE [raised |-> "none",
                            sizes |-> [node \in NodeSet(G) |->
                                LET i == CHOOSE j \in 1..n : G.nodes[j] = node
                                IN  NormalizedSize(values[i], lo, hi)]]
                 ELSE [raised |-> "none", sizes |-> [node \in NodeSet(G) |-> DefaultSize]]

(***************************************************************************)
(* Structural analytics: the per-graph computations of                     *)
(* create_corporate_metrics_dashboard, create_business_model_analysis and  *)
(* the network analysis summary of demo_visualizations.main.               *)
(***************************************************************************)
\* [(u, v) for u, v, d in G.edges(data=True) if d.get('relationship_type') == kind]
EdgesOfType(G, kind) ==
    {e \in EdgeSet(G) : RowGet(G.edge[e], "relationship_type", "None") = kind}

\* the edges E on all the nodes of G
edge_subgraph_all_nodes(G, E) ==
    [nodes |-> G.nodes, node |-> G.node, edge |-> [e \in E |-> G.edge[e]]]

\* G.edge_subgraph(edges): the edges and their endpoints, in the node order of G
edge_subgraph(G, E) ==
    LET keep == {n \in NodeSet(G) : \E e \in E : n = e[1] \/ n = e[2]}
    IN  [nodes |-> SelectSeq(G.nodes, LAMBDA n : n \in keep),
         node |-> [n \in keep |-> G.node[n]],
         edge |-> [e \in E |-> G.edge[e]]]

in_degree(G, n) == Cardinality({e \in EdgeSet(G) : e[2] = n})
out_degree(G, n) == Cardinality({e \in EdgeSet(G) : e[1] = n})

\* [n for n in G.nodes() if G.in_degree(n) == 0], and the same with out_degree
root_nodes(G) == SelectSeq(G.nodes, LAMBDA n : in_degree(G, n) = 0)
leaf_nodes(G) == SelectSeq(G.nodes, LAMBDA n : out_degree(G, n) = 0)

Range(f) == {f[x] : x \in DOMAIN f}
MaxOf(S) == CHOOSE m \in S : \A x \in S : x <= m

\* breadth-first search: a node found at a level is at that distance
RECURSIVE bfs(_, _, _, _)
bfs(G, frontier, level, seen) ==
    LET found == {e[2] : e \in {x \in EdgeSet(G) : x[1] \in frontier}} \ DOMAIN seen
    IN  IF found = {} THEN seen
        ELSE bfs(G, found, level + 1, [n \in found |-> level + 1] @@ seen)

\* path lengths counted in nodes rather than in edges
path_length_in_nodes(G, source) ==
    LET d == bfs(G, {source}, 0, (source :> 0)) IN [n \in DOMAIN d |-> d[n] + 1]

\* nx.single_source_shortest_path_length(G, source): node -> edge count
single_source_shortest_path_length(G, source) == bfs(G, {source}, 0, (source :> 0))

\* lines 1718-1729 (and 1912-1924): max_depth
hierarchy_depth(G) ==
    LET ownership_graph == edge_subgraph(G, EdgesOfType(G, "ownership"))
        roots == Range(root_nodes(ownership_graph))
    IN  MaxOf({0} \cup
              {MaxOf(Range(single_source_shortest_path_length(ownership_graph, root))) :
                  root \in roots})

\* a quotient of two integers, kept as the pair
Ratio(num, den) == [num |-> num, den |-> den]

\* line 1698: nx.density(G) if nodes > 1 else 0
density(G) ==
    LET nodes == Cardinality(NodeSet(G))
    IN  IF nodes > 1 THEN Ratio(Cardinality(EdgeSet(G)), nodes * (nodes - 1)) ELSE Ratio(0, 1)

\* G.degree(n): a self-loop counts twice
degree(G, n) == in_degree(G, n) + out_degree(G, n)

RECURSIVE SumOver(_, _)
SumOver(S, f) ==
    IF S = {} THEN 0 ELSE LET x == CHOOSE y \in S : TRUE IN f[x] + SumOver(S \ {x}, f)

\* lines 1732-1734: nx.degree_centrality(G), its maximum and its mean
max_centrality(G) ==
    LET n == Cardinality(NodeSet(G))
    IN  IF n = 0 THEN Ratio(0, 1)
        ELSE IF n = 1 THEN Ratio(1, 1)
        ELSE Ratio(MaxOf({degree(G, x) : x \in NodeSet(G)}), n - 1)
avg_centrality(G) ==
    LET n == Cardinality(NodeSet(G))
    IN  IF n = 0 THEN Ratio(0, 1)
        ELSE IF n = 1 THEN Ratio(1, 1)
        ELSE Ratio(SumOver(NodeSet(G), [x \in NodeSet(G) |-> degree(G, x)]), (n - 1) * n)

\* lines 1707-1715: the amounts of the transaction-typed edges, summed
total_transaction_volume(G) ==
    LET E == EdgesOfType(G, "transaction")
        amount == [e \in E |-> RowGet(G.edge[e], "amount", PyNum(0))]
    IN  IF \E e \in E : amount[e] = PyNaN THEN PyNaN
        ELSE PyNum(SumOver(E, [e \in E |-> amount[e].n]))
transaction_types(G) ==
    {RowGet(G.edge[e], "transaction_type", "Unknown") : e \in EdgesOfType(G, "transaction")}

\* lines 1736-1747: metrics_data[company_name]
metrics(G) ==
    [nodes |-> Cardinality(NodeSet(G)),
     edges |-> Cardinality(EdgeSet(G)),
     density |-> density(G),
     ownership_edges |-> Cardinality(EdgesOfType(G, "ownership")),
     transaction_edges |-> Cardinality(EdgesOfType(G, "transaction")),
     hierarchy_depth |-> hierarchy_depth(G),
     transaction_volume |-> total_transaction_volume(G),
     transaction_types |-> Cardinality(transaction_types(G)),
     max_centrality |-> max_centrality(G),
     avg_centrality |-> avg_centrality(G)]

\* demo_visualizations.py lines 131-159: one entry of analysis_data, with the
\* lists root_nodes and leaf_nodes of lines 141 and 144 themselves (the entry
\* keeps their lengths)
analysis(G) ==
    LET nodes == Cardinality(NodeSet(G))
        ownership_graph == edge_subgraph(G, EdgesOfType(G, "ownership"))
    IN  [nodes |-> nodes,
         edges |-> Cardinality(EdgeSet(G)),
         density |-> IF nodes > 1
                     THEN Ratio(Cardinality(EdgeSet(G)), nodes * (nodes - 1))
                     ELSE Ratio(0, 1),
         root_nodes |-> root_nodes(ownership_graph),
         leaf_nodes |-> leaf_nodes(ownership_graph),
         transaction_edges |-> Cardinality(EdgesOfType(G, "transaction")),
         ownership_edges |-> Cardinality(EdgesOfType(G, "ownership"))]

(***************************************************************************)
(* The archetype classifiers: the classification pass at the head of each  *)
(* of the four _create_*_view methods.  A text field of a node is a tagged *)
(* value, PyStr(s) or PyNaN; `kw in x` raises TypeError and x.lower()      *)
(* raises AttributeError when x is NaN.                                    *)
(***************************************************************************)
\* an entity code as the text node_data.get('entity_name', node) falls back to
CodeText(node) ==
    IF isna(node) THEN PyNaN ELSE IF node = "" THEN PyStr(<<>>) ELSE PyStr(<<node>>)

entity_name_of(G, node) == RowGet(G.node[node], "entity_name", CodeText(node))
entity_type_of(G, node) == RowGet(G.node[node], "entity_type", PyStr(<<>>))

\* any(keyword in text for keyword in keywords)
AnyIn(keywords, text) == \E keyword \in keywords : contains(text, keyword)

\* the nodes of G, in order, that the pass puts in bucket b
Bucket(G, of, b) == SelectSeq(G.nodes, LAMBDA n : of[n].bucket = b)

\* the exception of the first node, in order, at which the pass raises
FirstRaised(G, of) ==
    IF \E i \in 1..Len(G.nodes) : of[G.nodes[i]].raised # "none"
    THEN of[G.nodes[CHOOSE i \in 1..Len(G.nodes) :
                /\ of[G.nodes[i]].raised # "none"
                /\ \A j \in 1..(i - 1) : of[G.nodes[j]].raised = "none"]].raised
    ELSE "none"

Placed(b) == [raised |-> "none", bucket |-> b]
Raises(e) == [raised |-> e, bucket |-> "none"]

\* lines 905-918: the tier of one node
TierOf(G, node) ==
    LET entity_type == entity_type_of(G, node)
        entity_name == entity_name_of(G, node)
    IN  IF ~isstr(entity_name) THEN Raises("TypeError")
        ELSE IF contains(entity_name.s, <<"T", "e", "c", "h", "G", "l", "o", "b", "a", "l", " ", "I", "n", "c">>) THEN Placed("0")
        ELSE IF ~isstr(entity_type) THEN Raises("TypeError")
        ELSE IF contains(entity_type.s, <<"H", "o", "l", "d", "i", "n", "g", "s">>) \/ contains(entity_name.s, <<"H", "o", "l", "d", "i", "n", "g">>)
             THEN Placed("1")
        ELSE IF contains(entity_type.s, <<"O", "p", "e", "r", "a", "t", "i", "o", "n", "s">>) \/ AnyIn({<<"L", "t", "d">>, <<"G", "m", "b", "H">>, <<"S", "A", "S">>, <<"K", ".", "K", ".">>}, entity_name.s)
             THEN Placed("2")
        ELSE Placed("3")

\* lines 897-918 of _create_tech_hierarchy_view: tiers
tech_hierarchy_tiers(G) ==
    LET of == [n \in NodeSet(G) |-> TierOf(G, n)]
        raised == FirstRaised(G, of)
    IN  [raised |-> raised,
         value |-> IF raised # "none" THEN EmptyDict
                   ELSE [t \in {"0", "1", "2", "3"} |-> Bucket(G, of, t)]]

\* line 1055
InsuranceKeywords ==
    {<<"i", "n", "s", "u", "r", "a", "n", "c", "e">>,
     <<"r", "e", "i", "n", "s", "u", "r", "a", "n", "c", "e">>,
     <<"u", "n", "d", "e", "r", "w", "r", "i", "t", "i", "n", "g">>}

\* line 1057
TransportationKeywords ==
    {<<"t", "r", "a", "n", "s", "p", "o", "r", "t">>, <<"r", "a", "i", "l">>,
     <<"l", "o", "g", "i", "s", "t", "i", "c", "s">>}

\* line 1059
EnergyKeywords ==
    {<<"e", "n", "e", "r", "g", "y">>, <<"p", "o", "w", "e", "r">>,
     <<"u", "t", "i", "l", "i", "t", "i", "e", "s">>}

\* line 1061
ManufacturingKeywords ==
    {<<"m", "a", "n", "u", "f", "a", "c", "t", "u", "r", "i", "n", "g">>,
     <<"i", "n", "d", "u", "s", "t", "r", "i", "a", "l">>}

\* line 1063
RetailKeywords ==
    {<<"r", "e", "t", "a", "i", "l">>,
     <<"c", "o", "n", "s", "u", "m", "e", "r">>}

\* line 1190
BrandKeywords ==
    {<<"b", "r", "a", "n", "d">>, <<"p", "r", "o", "d", "u", "c", "t">>,
     <<"b", "e", "a", "u", "t", "y">>, <<"c", "a", "r", "e">>,
     <<"h", "o", "m", "e">>}

\* line 1192
GeographyKeywords ==
    {<<"e", "u", "r", "o", "p", "e">>, <<"a", "m", "e", "r", "i", "c", "a">>,
     <<"a", "s", "i", "a">>, <<"a", "f", "r", "i", "c", "a">>,
     <<"r", "e", "g", "i", "o", "n">>}

\* line 1372
ConcentrateKeywords ==
    {<<"c", "o", "n", "c", "e", "n", "t", "r", "a", "t", "e">>,
     <<"f", "o", "r", "m", "u", "l", "a">>}

\* line 1374
BottlingKeywords ==
    {<<"b", "o", "t", "t", "l", "i", "n", "g">>}

\* line 1376
RegionTokens ==
    {<<"N", "o", "r", "t", "h", " ", "A", "m", "e", "r", "i", "c", "a">>,
     <<"E", "u", "r", "o", "p", "e">>, <<"A", "s", "i", "a">>,
     <<"L", "a", "t", "i", "n", " ", "A", "m", "e", "r", "i", "c", "a">>,
     <<"E", "M", "E", "A">>}

\* line 1378
SupportTokens ==
    {<<"M", "a", "r", "k", "e", "t", "i", "n", "g">>,
     <<"S", "u", "p", "p", "l", "y", " ", "C", "h", "a", "i", "n">>,
     <<"I", "P">>, <<"I", "n", "n", "o", "v", "a", "t", "i", "o", "n">>}

\* lines 1043-1044: the first node of in-degree 0, else the first node;
\* list(G.nodes())[0] of an empty graph raises IndexError
portfolio_parent(G) ==
    LET parent_nodes == root_nodes(G)
    IN  IF parent_nodes # <<>> THEN [raised |-> "none", node |-> parent_nodes[1]]
        ELSE IF G.nodes # <<>> THEN [raised |-> "none", node |-> G.nodes[1]]
        ELSE [raised |-> "IndexError", node |-> ""]

\* lines 1050-1066: the sector of one subsidiary
SectorOf(G, node) ==
    LET entity_name == entity_name_of(G, node)
    IN  IF ~isstr(entity_name) THEN Raises("AttributeError")
        ELSE LET name == lower(entity_name.s)
             IN  IF AnyIn(InsuranceKeywords, name) THEN Placed("Insurance")
                 ELSE IF AnyIn(TransportationKeywords, name) THEN Placed("Transportation")
                 ELSE IF AnyIn(EnergyKeywords, name) THEN Placed("Energy")
                 ELSE IF AnyIn(ManufacturingKeywords, name) THEN Placed("Manufacturing")
                 ELSE IF AnyIn(RetailKeywords, name) THEN Placed("Retail")
                 ELSE Placed("Other")

\* a portfolio pass that buckets every node, the parent included
portfolio_sectors_with_parent(G) ==
    LET p == portfolio_parent(G)
        sub == [nodes |-> G.nodes]
        of == [n \in NodeSet(G) |-> SectorOf(G, n)]
        raised == IF p.raised # "none" THEN p.raised ELSE FirstRaised(sub, of)
        used == {of[n].bucket : n \in NodeSet(G)}
    IN  [raised |-> raised,
         value |-> IF raised # "none" THEN EmptyDict
                   ELSE [parent |-> p.node,
                         sectors |-> [b \in used |-> Bucket(sub, of, b)]]]

\* lines 1042-1070 of _create_portfolio_holding_view: parent and sectors;
\* n != parent holds of a NaN node even when it is the parent
portfolio_sectors(G) ==
    LET p == portfolio_parent(G)
        subsidiaries == SelectSeq(G.nodes, LAMBDA n : n # p.node \/ isna(n))
        sub == [nodes |-> subsidiaries]
        of == [n \in Range(subsidiaries) |-> SectorOf(G, n)]
        raised == IF p.raised # "none" THEN p.raised ELSE FirstRaised(sub, of)
        used == {of[n].bucket : n \in Range(subsidiaries)}
    IN  [raised |-> raised,
         value |-> IF raised # "none" THEN EmptyDict
                   ELSE [parent |-> p.node,
                         sectors |-> [b \in used |-> Bucket(sub, of, b)]]]

\* lines 1186-1195: the bucket of one node
AxisOf(G, node) ==
    LET entity_name == entity_name_of(G, node)
    IN  IF in_degree(G, node) = 0 THEN Placed("parent")
        ELSE IF ~isstr(entity_name) THEN Raises("AttributeError")
        ELSE IF AnyIn(BrandKeywords, lower(entity_name.s)) THEN Placed("brands")
        ELSE IF AnyIn(GeographyKeywords, lower(entity_name.s)) THEN Placed("geographic")
        ELSE Placed("corporate")

\* the value of `parent` after the loop: the last node that was assigned to it
LastOf(nodes) == IF nodes = <<>> THEN "None" ELSE nodes[Len(nodes)]

\* lines 1180-1195 of _create_matrix_organization_view
matrix_axes(G) ==
    LET of == [n \in NodeSet(G) |-> AxisOf(G, n)]
        raised == FirstRaised(G, of)
    IN  [raised |-> raised,
         value |-> IF raised # "none" THEN EmptyDict
                   ELSE [parent |-> LastOf(Bucket(G, of, "parent")),
                         brands |-> Bucket(G, of, "brands"),
                         geographic |-> Bucket(G, of, "geographic"),
                         corporate |-> Bucket(G, of, "corporate")]]

\* lines 1368-1379: the bucket of one node ("none": in no bucket)
RoleOf(G, node) ==
    LET entity_name == entity_name_of(G, node)
    IN  IF in_degree(G, node) = 0 THEN Placed("parent")
        ELSE IF ~isstr(entity_name) THEN Raises("AttributeError")
        ELSE IF AnyIn(ConcentrateKeywords, lower(entity_name.s)) THEN Placed("concentrate_ops")
        ELSE IF AnyIn(BottlingKeywords, lower(entity_name.s)) THEN Placed("bottling_ops")
        ELSE IF AnyIn(RegionTokens, entity_name.s) THEN Placed("regional_ops")
        ELSE IF AnyIn(SupportTokens, entity_name.s) THEN Placed("support_functions")
        ELSE Placed("none")

\* lines 1361-1379 of _create_franchise_network_view
franchise_roles(G) ==
    LET of == [n \in NodeSet(G) |-> RoleOf(G, n)]
        raised == FirstRaised(G, of)
    IN  [raised |-> raised,
         value |-> IF raised # "none" THEN EmptyDict
                   ELSE [parent |-> LastOf(Bucket(G, of, "parent")),
                         concentrate_ops |-> Bucket(G, of, "concentrate_ops"),
                         bottling_ops |-> Bucket(G, of, "bottling_ops"),
                         support_functions |-> Bucket(G, of, "support_functions"),
                         regional_ops |-> Bucket(G, of, "regional_ops")]]

(***************************************************************************)
(* create_business_model_analysis: the six scores of one graph.            *)
(***************************************************************************)
\* min(10, num / den)
Min10(num, den) == IF num >= 10 * den THEN Ratio(10, 1) ELSE Ratio(num, den)

\* G.nodes[n].get(key, '').lower(): AttributeError when the value is NaN
LowerOf(G, node, key) ==
    LET text == RowGet(G.node[node], key, PyStr(<<>>))
    IN  IF isstr(text) THEN [raised |-> "none", s |-> lower(text.s)]
        ELSE [raised |-> "AttributeError", s |-> <<>>]

\* lines 1889-1892: the test of one node, its `or` short-circuiting
IsManufacturing(G, node) ==
    LET name == LowerOf(G, node, "entity_name")
        type == LowerOf(G, node, "entity_type")
    IN  IF name.raised # "none" THEN Raises(name.raised)
        ELSE IF contains(name.s, <<"b", "o", "t", "t", "l", "i", "n", "g">>) \/ contains(name.s, <<"m", "a", "n", "u", "f", "a", "c", "t", "u", "r", "i", "n", "g">>)
             THEN Placed("yes")
        ELSE IF type.raised # "none" THEN Raises(type.raised)
        ELSE IF contains(type.s, <<"o", "p", "e", "r", "a", "t", "i", "o", "n", "s">>) THEN Placed("yes")
        ELSE Placed("no")

\* line 1931
InnovationKeywords ==
    {<<"i", "n", "n", "o", "v", "a", "t", "i", "o", "n">>, <<"r", "e", "s", "e", "a", "r", "c", "h">>,
     <<"d", "e", "v", "e", "l", "o", "p", "m", "e", "n", "t">>, <<"i", "p">>,
     <<"v", "e", "n", "t", "u", "r", "e", "s">>}

\* lines 1887-1933: scores, or the exception the pass over the graph raises
business_model_scores(G) ==
    LET n == Cardinality(NodeSet(G))
        m == Cardinality(EdgeSet(G))
        of == [x \in NodeSet(G) |-> IsManufacturing(G, x)]
        raised == FirstRaised(G, of)
        manufacturing_entities == Len(Bucket(G, of, "yes"))
        regions == {RowGet(G.node[x], "region", "Unknown") : x \in NodeSet(G)} \ {"Unknown"}
        d == IF m = 0 \/ n <= 1 THEN Ratio(0, 1) ELSE Ratio(m, n * (n - 1))
        max1 == IF n > 1 THEN n ELSE 1
        max_depth == hierarchy_depth(G)
        innovation_entities ==
            Cardinality({x \in NodeSet(G) :
                AnyIn(InnovationKeywords, LowerOf(G, x, "entity_name").s)})
    IN  IF raised # "none" THEN [raised |-> raised, value |-> EmptyDict]
        ELSE IF n = 0 THEN [raised |-> "ZeroDivisionError", value |-> EmptyDict]
        ELSE [raised |-> "none",
              value |->
                [asset_intensity |-> Min10(manufacturing_entities * 20, n),
                 geographic_spread |-> Min10(Cardinality(regions) * 2, 1),
                 operational_complexity |-> Min10(d.num * 500 + m * d.den, 10 * d.den),
                 financial_integration |->
                     Min10(Cardinality(EdgesOfType(G, "transaction")) * 10, max1),
                 control_centralization |-> Min10(max_depth * 5, 2),
                 innovation_focus |-> Min10(innovation_entities * 30, max1)]]

(***************************************************************************)
(* The inputs: what the CSV files of a company may hold.                   *)
(***************************************************************************)
Companies == {"TechGlobal", "GlobalVentures", "ConsumerBrands", "GlobalBeverage"}
Focus == "TechGlobal"

Codes == {"P", "S"}
CodeCells == Codes \cup {"", NaN}
Chars == {"0", "1", ",", "%", "x"}

File(rows) == [readable |-> TRUE, rows |-> rows]

\* Roster rows; the code column is headed as the data files head it, or as
\* the interface description names it.
CodeColumns == {"Legal Entity Code (#)", "Legal Entity Code"}
RosterRow(col, code, name) == (col :> code) @@ ("Entity Name" :> name)
RosterRows(col) == {RosterRow(col, code, name) : code \in CodeCells, name \in {"A", "B"}}
RowP == RosterRow("Legal Entity Code (#)", "P", "A")
RowS == RosterRow("Legal Entity Code (#)", "S", "B")

\* Ownership rows
OwnRow(owner, owned, percent) ==
    [x \in {"Owner Entity Code", "Owned Entity Code", "Percent Owned", "Share Class"} |->
        CASE x = "Owner Entity Code" -> owner
          [] x = "Owned Entity Code" -> owned
          [] x = "Percent Owned" -> percent
          [] x = "Share Class" -> "Common"]
OwnRows ==
    {OwnRow(owner, owned, PyStr(<<"1", "%">>)) : owner \in CodeCells, owned \in Codes}
    \cup {OwnRow("P", "S", percent) : percent \in {PyNaN, PyStr(<<"x">>), PyNum(1)}}
    \cup {OwnRow("P", "", PyStr(<<"1", "%">>))}

\* Transaction rows
TxnRow(creditor, debtor, amount) ==
    [x \in {"Creditor Entity Code", "Debtor Entity Code", "Principal Amount",
            "Transaction Type"} |->
        CASE x = "Creditor Entity Code" -> creditor
          [] x = "Debtor Entity Code" -> debtor
          [] x = "Principal Amount" -> amount
          [] x = "Transaction Type" -> "Loan"]
TxnRows ==
    {TxnRow(creditor, debtor, PyStr(<<"1", ",", "0">>)) : creditor \in CodeCells, debtor \in Codes}
    \cup {TxnRow("P", debtor, PyStr(<<"1", ",", "0">>)) : debtor \in {"", NaN}}
    \cup {TxnRow("P", "S", amount) : amount \in {PyNaN, PyStr(<<"x">>)}}

\* Attribute rows
AttrNames == {<<"R", "e", "v">>, <<"r", "e", "v", "2">>, <<"e", "m", "p">>}
AttrValues == {PyStr(<<"0">>), PyStr(<<"1", ",", "0">>), PyStr(<<"x">>), PyNaN}
AttrRow(code, name, value) ==
    [x \in {"Entity Code", "Attribute Name", "Attribute Value"} |->
        CASE x = "Entity Code" -> code
          [] x = "Attribute Name" -> PyStr(name)
          [] x = "Attribute Value" -> value]
\* a row that carries the Value Type and Category columns as well
AttrRowTyped ==
    AttrRow("P", <<"R", "e", "v">>, PyStr(<<"0">>))
        @@ ("Value Type" :> "Currency") @@ ("Category" :> "Financial")
AttrRows ==
    {AttrRow(code, name, value) : code \in Codes, name \in AttrNames, value \in AttrValues}
        \cup {AttrRowTyped}

\* The file sets of the company in focus: each family varies one kind of file.
RosterFocus(rows) == ("structure" :> File(rows))
EdgeFocus(st, own, txn) ==
    ("structure" :> File(st)) @@ ("ownership" :> File(own)) @@ ("transactions" :> File(txn))
AttrFocus(st, own, at) ==
    ("structure" :> File(st)) @@ ("ownership" :> File(own)) @@ ("attributes" :> File(at))

(***************************************************************************)
(* The state machine of graph assembly and analytics.                      *)
(***************************************************************************)
NotCalled == [called |-> FALSE, G |-> EmptyGraph, raised |-> "none", sizes |-> EmptyDict]
NoEdges == [called |-> FALSE, list |-> <<>>]
\* no create_company_graph call has started
NoWork == [c \in Companies |-> [pc |-> "idle", data |-> EmptyDict, G |-> EmptyGraph]]
NoCall == [op |-> "none", company_name |-> "", raised |-> "none", value |-> EmptyDict]

OnDisk(files) == [c \in Companies |-> IF c = Focus THEN files ELSE EmptyDict]

Init ==
    /\ \/ \E col \in CodeColumns, k \in 0..MaxRoster :
              \E rows \in [1..k -> RosterRows(col)] : disk = OnDisk(RosterFocus(rows))
       \/ \E k \in 0..MaxEdgeRows :
              \E j \in 0..(MaxEdgeRows - k) :
                 \E own \in [1..k -> OwnRows], txn \in [1..j -> TxnRows],
                    st \in {<<RowP>>, <<RowP, RowS>>} :
                       disk = OnDisk(EdgeFocus(st, own, txn))
       \/ \E k \in 0..MaxAttr :
              \E at \in [1..k -> AttrRows],
                 c \in {<<<<RowP, RowS>>, <<>>>>, <<<<RowP>>, <<>>>>,
                        <<<<RowP>>, <<OwnRow("P", "S", PyStr(<<"1", "%">>))>>>>} :
                    disk = OnDisk(AttrFocus(c[1], c[2], at))
    /\ graphs = EmptyDict
    /\ df = <<>>
    /\ edges = NoEdges
    /\ sizes = NotCalled
    /\ call = NoCall
    /\ work = NoWork

\* lines 284-295: load_all_companies
LoadAllCompanies ==
    /\ graphs = EmptyDict
    /\ graphs' = [c \in Companies |-> create_company_graph(disk[c], c)]
    /\ UNCHANGED <<disk, df, edges, sizes, call, work>>

\* line 410: get_node_sizes(G) on a stored graph, size_attribute = 'revenue'
\* (shortened to 'rev' as the attribute names are)
size_attribute == <<"r", "e", "v">>
GetNodeSizes(c) ==
    /\ c \in DOMAIN graphs
    /\ sizes = NotCalled
    /\ sizes' = [called |-> TRUE, G |-> graphs[c]] @@ get_node_sizes(graphs[c], size_attribute)
    /\ UNCHANGED <<disk, graphs, df, edges, call, work>>

Next ==
    \/ LoadAllCompanies
    \/ \E c \in Companies : GetNodeSizes(c)

Spec == Init /\ [][Next]_vars

(***************************************************************************)
(* The per-group views.  Each takes self.graphs and a group name and       *)
(* yields [raised, value]: the exception it raises, if any, and what it    *)
(* read off the graph.                                                     *)
(***************************************************************************)
NotFound == [raised |-> "ValueError", value |-> EmptyDict]

\* lines 356-363 of create_hierarchy_layout: max() of no nodes raises
create_hierarchy_layout(G) ==
    IF root_nodes(G) = <<>> /\ G.nodes = <<>> THEN "ValueError" ELSE "none"

\* lines 389-410
create_ownership_hierarchy_plot(gs, company_name) ==
    IF company_name \notin DOMAIN gs THEN NotFound
    ELSE LET G == gs[company_name]
             G_ownership == edge_subgraph(G, EdgesOfType(G, "ownership"))
             layout == create_hierarchy_layout(G_ownership)
             node_sizes == get_node_sizes(G, size_attribute)
         IN  IF layout # "none" THEN [raised |-> layout, value |-> EmptyDict]
             ELSE IF node_sizes.raised # "none"
                  THEN [raised |-> node_sizes.raised, value |-> EmptyDict]
             ELSE [raised |-> "none", value |-> [edges |-> EdgeSet(G_ownership)]]

\* lines 513-532
create_financial_flow_plot(gs, company_name) ==
    IF company_name \notin DOMAIN gs THEN NotFound
    ELSE [raised |-> "none",
          value |-> [edges |-> EdgesOfType(gs[company_name], "transaction")]]

\* lines 650-659
create_multilayer_network_plot(gs, company_name) ==
    IF company_name \notin DOMAIN gs THEN NotFound
    ELSE [raised |-> "none",
          value |-> [ownership_edges |-> EdgesOfType(gs[company_name], "ownership"),
                     transaction_edges |-> EdgesOfType(gs[company_name], "transaction")]]

\* lines 892-918
create_tech_hierarchy_view(gs, company_name) ==
    IF company_name \notin DOMAIN gs THEN NotFound
    ELSE tech_hierarchy_tiers(gs[company_name])

\* lines 1037-1070
create_portfolio_holding_view(gs, company_name) ==
    IF company_name \notin DOMAIN gs THEN NotFound
    ELSE portfolio_sectors(gs[company_name])

\* lines 1174-1195
create_matrix_organization_view(gs, company_name) ==
    IF company_name \notin DOMAIN gs THEN NotFound
    ELSE matrix_axes(gs[company_name])

\* lines 1355-1379
create_franchise_network_view(gs, company_name) ==
    IF company_name \notin DOMAIN gs THEN NotFound
    ELSE franchise_roles(gs[company_name])

\* a dispatcher that answers an unknown name with an empty figure
specialized_or_empty_figure(gs, company_name) ==
    IF company_name \notin DOMAIN gs THEN [raised |-> "none", value |-> EmptyDict]
    ELSE create_ownership_hierarchy_plot(gs, company_name)

\* lines 878-888: the view of the group's archetype, else the standard plot
create_specialized_model_visualization(gs, company_name) ==
    CASE company_name = "TechGlobal" -> create_tech_hierarchy_view(gs, company_name)
      [] company_name = "GlobalVentures" -> create_portfolio_holding_view(gs, company_name)
      [] company_name = "ConsumerBrands" -> create_matrix_organization_view(gs, company_name)
      [] company_name = "GlobalBeverage" -> create_franchise_network_view(gs, company_name)
      [] OTHER -> create_ownership_hierarchy_plot(gs, company_name)

\* self.companies in insertion order, the order self.graphs is filled in
CompanyOrder == <<"TechGlobal", "GlobalVentures", "ConsumerBrands", "GlobalBeverage">>

\* lines 1885-1933: the loop over self.graphs stops at the first exception
create_business_model_analysis(gs) ==
    LET order == SelectSeq(CompanyOrder, LAMBDA c : c \in DOMAIN gs)
        scores == [c \in DOMAIN gs |-> business_model_scores(gs[c])]
    IN  IF \E i \in 1..Len(order) : scores[order[i]].raised # "none"
        THEN [raised |-> scores[order[CHOOSE i \in 1..Len(order) :
                            /\ scores[order[i]].raised # "none"
                            /\ \A j \in 1..(i - 1) : scores[order[j]].raised = "none"]].raised,
              value |-> EmptyDict]
        ELSE [raised |-> "none", value |-> [c \in DOMAIN gs |-> scores[c].value]]

(***************************************************************************)
(* The state machine of analytics on the assembled graphs.                 *)
(***************************************************************************)
MaxOwn == 2        \* most rows of an ownership file of the analytics inputs

HierCodes == {"P", "S", "T"}
Unlisted == "Unlisted"

\* Roster rows with the text columns the classifiers read
EntityRow(code, name, type) ==
    ("Legal Entity Code (#)" :> code) @@ ("Entity Name" :> PyStr(name))
        @@ ("Entity Type" :> PyStr(type))
EntityP == EntityRow("P", <<"T", "e", "c", "h", "G", "l", "o", "b", "a", "l", " ", "I", "n", "c">>, <<"P", "a", "r", "e", "n", "t">>)
EntityS == EntityRow("S", <<"E", "u", "r", "o", " ", "H", "o", "l", "d", "i", "n", "g">>, <<"H", "o", "l", "d", "i", "n", "g", "s">>)
EntityT == EntityRow("T", <<"A", "s", "i", "a", " ", "B", "o", "t", "t", "l", "i", "n", "g", " ", "L", "t", "d">>, <<"O", "p", "e", "r", "a", "t", "i", "o", "n", "s">>)
HierRosters == {<<EntityP, EntityS, EntityT>>, <<EntityP, EntityS>>}

Sixty == PyStr(<<"6", "0", "%">>)
HierPairs == {e \in HierCodes \X HierCodes : e[1] # e[2] \/ e = <<"P", "P">>}
HierOwnRows == {OwnRow(e[1], e[2], Sixty) : e \in HierPairs}
HierTxnFiles ==
    {<<>>} \cup {<<TxnRow(e[1], e[2], PyStr(<<"1", ",", "0">>))>> :
                    e \in {<<"P", "S">>, <<"S", "T">>}}

\* every other group has a roster of one entity
OtherFiles == ("structure" :> File(<<EntityS>>))
OnDiskAll(files) == [c \in Companies |-> IF c = Focus THEN files ELSE OtherFiles]

InitAnalytics ==
    /\ \E k \in 0..MaxOwn :
          \E own \in [1..k -> HierOwnRows], txn \in HierTxnFiles, st \in HierRosters :
             disk = OnDiskAll(EdgeFocus(st, own, txn))
    /\ graphs = EmptyDict
    /\ df = <<>>
    /\ edges = NoEdges
    /\ sizes = NotCalled
    /\ call = NoCall
    /\ work = NoWork

Called(op, company_name, outcome) ==
    [op |-> op, company_name |-> company_name,
     raised |-> outcome.raised, value |-> outcome.value]

GroupNames == {Focus, Unlisted}
\* a call that caches what it computed in the data dict of every node
FrameWithCache ==
    /\ UNCHANGED <<disk, df, edges, sizes, work>>
    /\ graphs' = [c \in DOMAIN graphs |->
                     [graphs[c] EXCEPT !.node =
                         [n \in DOMAIN @ |-> ("cached" :> call'.op) @@ @[n]]]]

\* a view or analytics call reads self.graphs and writes nothing
Frame == UNCHANGED <<disk, graphs, df, edges, sizes, work>>

CreateOwnershipHierarchyPlot(c) ==
    /\ call = NoCall
    /\ call' = Called("create_ownership_hierarchy_plot", c,
                      create_ownership_hierarchy_plot(graphs, c))
    /\ Frame

CreateFinancialFlowPlot(c) ==
    /\ call = NoCall
    /\ call' = Called("create_financial_flow_plot", c, create_financial_flow_plot(graphs, c))
    /\ Frame

CreateMultilayerNetworkPlot(c) ==
    /\ call = NoCall
    /\ call' = Called("create_multilayer_network_plot", c,
                      create_multilayer_network_plot(graphs, c))
    /\ Frame

CreateSpecializedModelVisualization(c) ==
    /\ call = NoCall
    /\ call' = Called("create_specialized_model_visualization", c,
                      create_specialized_model_visualization(graphs, c))
    /\ Frame

CreateTechHierarchyView(c) ==
    /\ call = NoCall
    /\ call' = Called("_create_tech_hierarchy_view", c, create_tech_hierarchy_view(graphs, c))
    /\ Frame

CreatePortfolioHoldingView(c) ==
    /\ call = NoCall
    /\ call' = Called("_create_portfolio_holding_view", c,
                      create_portfolio_holding_view(graphs, c))
    /\ Frame

CreateMatrixOrganizationView(c) ==
    /\ call = NoCall
    /\ call' = Called("_create_matrix_organization_view", c,
                      create_matrix_organization_view(graphs, c))
    /\ Frame

CreateFranchiseNetworkView(c) ==
    /\ call = NoCall
    /\ call' = Called("_create_franchise_network_view", c,
                      create_franchise_network_view(graphs, c))
    /\ Frame

\* lines 1694-1748: metrics_data
CreateCorporateMetricsDashboard ==
    /\ call = NoCall
    /\ call' = Called("create_corporate_metrics_dashboard", "",
                      [raised |-> "none",
                       value |-> [c \in DOMAIN graphs |-> metrics(graphs[c])]])
    /\ Frame

CreateBusinessModelAnalysis ==
    /\ call = NoCall
    /\ call' = Called("create_business_model_analysis", "",
                      create_business_model_analysis(graphs))
    /\ Frame

\* demo_visualizations.py lines 126-159: analysis_data
NetworkAnalysisSummary ==
    /\ call = NoCall
    /\ call' = Called("network_analysis_summary", "",
                      [raised |-> "none",
                       value |-> [c \in DOMAIN graphs |-> analysis(graphs[c])]])
    /\ Frame

NextAnalytics ==
    \/ LoadAllCompanies
    \/ GetNodeSizes(Focus)
    \/ \E c \in GroupNames : CreateOwnershipHierarchyPlot(c)
    \/ \E c \in GroupNames : CreateFinancialFlowPlot(c)
    \/ \E c \in GroupNames : CreateMultilayerNetworkPlot(c)
    \/ \E c \in GroupNames : CreateSpecializedModelVisualization(c)
    \/ \E c \in GroupNames : CreateTechHierarchyView(c)
    \/ \E c \in GroupNames : CreatePortfolioHoldingView(c)
    \/ \E c \in GroupNames : CreateMatrixOrganizationView(c)
    \/ \E c \in GroupNames : CreateFranchiseNetworkView(c)
    \/ CreateCorporateMetricsDashboard
    \/ CreateBusinessModelAnalysis
    \/ NetworkAnalysisSummary

SpecAnalytics == InitAnalytics /\ [][NextAnalytics]_vars

(***************************************************************************)
(* The four classification passes on rosters whose Entity Name and Entity  *)
(* Type cells hold the texts the passes test for, or are empty (NaN).      *)
(***************************************************************************)
\* a roster row by its cells
EntityCells(code, name, type) ==
    ("Legal Entity Code (#)" :> code) @@ ("Entity Name" :> name) @@ ("Entity Type" :> type)

LabelledP ==
    {EntityCells("P", PyStr(<<"T", "e", "c", "h", "G", "l", "o", "b", "a", "l", " ", "I", "n", "c">>),
                 PyStr(<<"P", "a", "r", "e", "n", "t">>)),
     EntityCells("P", PyStr(<<"T", "e", "c", "h", "G", "l", "o", "b", "a", "l", " ", "I", "n", "c", " ", "H", "o", "l", "d", "i", "n", "g">>),
                 PyStr(<<"H", "o", "l", "d", "i", "n", "g", "s">>)),
     EntityCells("P", PyNaN,
                 PyStr(<<"P", "a", "r", "e", "n", "t">>))}
LabelledS ==
    {EntityCells("S", PyStr(<<"E", "u", "r", "o", " ", "H", "o", "l", "d", "i", "n", "g">>),
                 PyStr(<<"H", "o", "l", "d", "i", "n", "g", "s">>)),
     EntityCells("S", PyStr(<<"H", "o", "m", "e", " ", "C", "a", "r", "e", " ", "E", "u", "r", "o", "p", "e">>),
                 PyStr(<<"H", "o", "l", "d", "i", "n", "g">>)),
     EntityCells("S", PyStr(<<"R", "a", "i", "l", " ", "I", "n", "s", "u", "r", "a", "n", "c", "e">>),
                 PyNaN),
     EntityCells("S", PyStr(<<"F", "o", "r", "m", "u", "l", "a", " ", "M", "a", "r", "k", "e", "t", "i", "n", "g">>),
                 PyStr(<<"O", "p", "e", "r", "a", "t", "i", "o", "n", "s">>))}
LabelledT ==
    {EntityCells("T", PyStr(<<"A", "s", "i", "a", " ", "B", "o", "t", "t", "l", "i", "n", "g", " ", "L", "t", "d">>),
                 PyStr(<<"O", "p", "e", "r", "a", "t", "i", "o", "n", "s">>)),
     EntityCells("T", PyStr(<<"P", "o", "w", "e", "r", " ", "R", "e", "t", "a", "i", "l", " ", "G", "m", "b", "H">>),
                 PyStr(<<>>))}

\* a roster lists P, S and T in this order; P and T may be left out
ClassRosters ==
    {p \o s \o t : p \in {<<>>} \cup {<<r>> : r \in LabelledP},
                   s \in {<<r>> : r \in LabelledS},
                   t \in {<<>>} \cup {<<r>> : r \in LabelledT}}
ClassOwnRows ==
    {OwnRow(e[1], e[2], Sixty) : e \in {<<"P", "S">>, <<"S", "T">>, <<"S", "P">>}}
ClassTxnFiles ==
    {<<>>} \cup {<<TxnRow(e[1], e[2], PyStr(<<"1", ",", "0">>))>> :
                    e \in {<<"S", "P">>, <<"T", "P">>}}

InitClassify ==
    /\ \E k \in 0..MaxOwn :
          \E own \in [1..k -> ClassOwnRows], txn \in ClassTxnFiles, st \in ClassRosters :
             disk = OnDiskAll(EdgeFocus(st, own, txn))
    /\ graphs = EmptyDict
    /\ df = <<>>
    /\ edges = NoEdges
    /\ sizes = NotCalled
    /\ call = NoCall
    /\ work = NoWork

NextClassify ==
    \/ LoadAllCompanies
    \/ \E c \in GroupNames : CreateTechHierarchyView(c)
    \/ \E c \in GroupNames : CreatePortfolioHoldingView(c)
    \/ \E c \in GroupNames : CreateMatrixOrganizationView(c)
    \/ \E c \in GroupNames : CreateFranchiseNetworkView(c)

SpecClassify == InitClassify /\ [][NextClassify]_vars

(***************************************************************************)
(* Loading with record sets missing or unreadable: each of the four files  *)
(* of the group is absent, present but failing in pd.read_csv, or read.    *)
(***************************************************************************)
Unreadable(rows) == [readable |-> FALSE, rows |-> rows]

FileContents(kind) ==
    CASE kind = "structure" -> {<<RowP, RowS>>, <<RowP>>}
      [] kind = "ownership" ->
             {<<OwnRow(a, b, PyStr(<<"1", "%">>))>> : a \in {"P"}, b \in {"S", "P"}}
      [] kind = "transactions" ->
             {<<TxnRow(a, b, PyStr(<<"1", ",", "0">>))>> : a \in {"P", "S"}, b \in {"P"}}
      [] kind = "attributes" ->
             {<<AttrRow(code, <<"R", "e", "v">>, PyStr(<<"0">>))>> : code \in {"P", "S"}}

\* what may be at the path of a file that exists
FileStates(kind) ==
    {File(rows) : rows \in FileContents(kind)}
        \cup {Unreadable(rows) : rows \in FileContents(kind)}

\* the files found: those of the kinds in `present`
Found(present, st, own, txn, at) ==
    [k \in present |->
        CASE k = "structure" -> st [] k = "ownership" -> own
          [] k = "transactions" -> txn [] k = "attributes" -> at]

InitLoad ==
    /\ \E present \in SUBSET Range(FilePatterns) :
          \E st \in FileStates("structure"), own \in FileStates("ownership"),
             txn \in FileStates("transactions"), at \in FileStates("attributes") :
                disk = OnDisk(Found(present, st, own, txn, at))
    /\ graphs = EmptyDict
    /\ df = <<>>
    /\ edges = NoEdges
    /\ sizes = NotCalled
    /\ call = NoCall
    /\ work = NoWork

SpecLoad == InitLoad /\ [][Next]_vars

(***************************************************************************)
(* One create_company_graph call per group, taken a block at a time, the   *)
(* calls of different groups in any order and interleaving.  data and G    *)
(* are locals of the call; self.graphs is written once, by the assignment  *)
(* of line 291.                                                            *)
(***************************************************************************)
Second == "GlobalVentures"

\* the file sets a group may have on disk; the groups share entity codes
GroupFiles ==
    {EmptyDict,
     ("structure" :> File(<<RowP, RowS>>))
        @@ ("ownership" :> File(<<OwnRow("P", "S", PyStr(<<"1", "%">>))>>)),
     ("structure" :> File(<<RowP>>))
        @@ ("transactions" :> File(<<TxnRow("S", "P", PyStr(<<"1">>))>>)),
     ("structure" :> File(<<RowS>>))
        @@ ("ownership" :> File(<<OwnRow("S", "P", PyStr(<<"1", "0", "%">>))>>))
        @@ ("transactions" :> File(<<TxnRow("S", "P", PyStr(<<"1">>))>>))
        @@ ("attributes" :> File(<<AttrRowTyped, AttrRow("S", <<"r", "e", "v">>, PyStr(<<"1">>))>>)),
     ("structure" :> Unreadable(<<RowP>>))
        @@ ("attributes" :> File(<<AttrRowTyped>>))}

InitGroups ==
    /\ \E f \in GroupFiles, g \in GroupFiles :
          disk = [c \in Companies |->
                     IF c = Focus THEN f ELSE IF c = Second THEN g ELSE EmptyDict]
    /\ graphs = EmptyDict
    /\ df = <<>>
    /\ edges = NoEdges
    /\ sizes = NotCalled
    /\ call = NoCall
    /\ work = NoWork

\* the registry after an assignment that rebuilds it
SetOnlyGraph(gs, company_name, G) == (company_name :> G)

\* line 291: self.graphs[company_name] = G
SetGraph(gs, company_name, G) == (company_name :> G) @@ gs

At(c, pc) == work[c].pc = pc
Goto(c, pc, data, G) == work' = [work EXCEPT ![c] = [pc |-> pc, data |-> data, G |-> G]]
Locals == UNCHANGED <<disk, graphs, df, edges, sizes, call>>

\* lines 208-215: data = self.load_company_data(company_name); no data
\* returns an empty graph, otherwise G = nx.DiGraph()
LoadData(c) ==
    /\ At(c, "idle")
    /\ LET data == load_company_data(disk[c])
       IN  Goto(c, IF data = EmptyDict THEN "return" ELSE "structure", data, EmptyGraph)
    /\ Locals

\* lines 217-242
AddStructureNodes(c) ==
    /\ At(c, "structure")
    /\ LET data == work[c].data
           G == work[c].G
       IN  Goto(c, "ownership", data,
                IF "structure" \in DOMAIN data
                THEN AddStructure(G, data["structure"], c) ELSE G)
    /\ Locals

\* lines 244-248
AddOwnership(c) ==
    /\ At(c, "ownership")
    /\ LET data == work[c].data
           G == work[c].G
       IN  Goto(c, "transactions", data,
                IF "ownership" \in DOMAIN data
                THEN AddOwnershipEdges(G,
                         process_ownership_relationships(data["ownership"], c))
                ELSE G)
    /\ Locals

\* lines 250-260
AddTransactions(c) ==
    /\ At(c, "transactions")
    /\ LET data == work[c].data
           G == work[c].G
       IN  Goto(c, "attributes", data,
                IF "transactions" \in DOMAIN data
                THEN AddTransactionEdges(G,
                         process_transaction_relationships(data["transactions"], c))
                ELSE G)
    /\ Locals

\* lines 262-279
AddNodeAttributes(c) ==
    /\ At(c, "attributes")
    /\ LET data == work[c].data
           G == work[c].G
       IN  Goto(c, "return", data,
                IF "attributes" \in DOMAIN data
                THEN AddAttributes(G, data["attributes"]) ELSE G)
    /\ Locals

\* lines 282 and 291: return G; self.graphs[company_name] = G
StoreGraph(c) ==
    /\ At(c, "return")
    /\ graphs' = SetGraph(graphs, c, work[c].G)
    /\ Goto(c, "stored", work[c].data, work[c].G)
    /\ UNCHANGED <<disk, df, edges, sizes, call>>

NextGroups ==
    \E c \in Companies :
        \/ LoadData(c)
        \/ AddStructureNodes(c)
        \/ AddOwnership(c)
        \/ AddTransactions(c)
        \/ AddNodeAttributes(c)
        \/ StoreGraph(c)

SpecGroups == InitGroups /\ [][NextGroups]_vars

(***************************************************************************)
(* The two process_* methods on a one-row DataFrame whose Percent Owned or *)
(* Principal Amount cell is any string of up to MaxLen characters, a       *)
(* number, an empty cell (NaN), or whose column is absent.                 *)
(***************************************************************************)
OtherCells ==
    {PyStr(<<" ", "1", " ">>), PyStr(<<"-", "1", "%">>), PyStr(<<"-", "1", ",", "0">>)}
    \cup {PyNum(n) : n \in {0 - 1, 0, 5}} \cup {PyNaN}

Without(row, col) == [x \in DOMAIN row \ {col} |-> row[x]]

IsOwnershipFrame(frame) == \A i \in 1..Len(frame) : "Owner Entity Code" \in DOMAIN frame[i]
IsTransactionFrame(frame) == \A i \in 1..Len(frame) : "Creditor Entity Code" \in DOMAIN frame[i]

InitNorm ==
    /\ disk = OnDisk(EmptyDict)
    /\ graphs = EmptyDict
    /\ \/ \E k \in 0..MaxLen :
              \E s \in [1..k -> Chars] :
                 \/ df = <<OwnRow("P", "S", PyStr(s))>>
                 \/ df = <<TxnRow("P", "S", PyStr(s))>>
       \/ \E c \in OtherCells :
              \/ df = <<OwnRow("P", "S", c)>>
              \/ df = <<TxnRow("P", "S", c)>>
       \/ df = <<Without(OwnRow("P", "S", PyNaN), "Percent Owned")>>
       \/ df = <<Without(TxnRow("P", "S", PyNaN), "Principal Amount")>>
    /\ edges = NoEdges
    /\ sizes = NotCalled
    /\ call = NoCall
    /\ work = NoWork

\* lines 108-150
ProcessOwnership ==
    /\ ~edges.called
    /\ IsOwnershipFrame(df)
    /\ edges' = [called |-> TRUE, list |-> process_ownership_relationships(df, Focus)]
    /\ UNCHANGED <<disk, graphs, df, sizes, call, work>>

\* lines 152-195
ProcessTransactions ==
    /\ ~edges.called
    /\ IsTransactionFrame(df)
    /\ edges' = [called |-> TRUE, list |-> process_transaction_relationships(df, Focus)]
    /\ UNCHANGED <<disk, graphs, df, sizes, call, work>>

NextNorm == ProcessOwnership \/ ProcessTransactions

SpecNorm == InitNorm /\ [][NextNorm]_vars

(***************************************************************************)
(* Field normalization: C7, C8                                             *)
(***************************************************************************)
\* the cell of the one-row frame and the value stored for it
HasStringCell(col) == df # <<>> /\ col \in DOMAIN df[1] /\ isstr(df[1][col])
StoredPercent == edges.list[1][3].percent_owned
StoredAmount == edges.list[1][3].amount

EndsWithPercent(s) == s # <<>> /\ s[Len(s)] = "%"
Front(s) == SubSeq(s, 1, Len(s) - 1)

\* a number, or a number followed by one '%'
ParsesAsPercentage(s) == floatStr(s).ok \/ (EndsWithPercent(s) /\ floatStr(Front(s)).ok)

\* the prefixes of s that leave only '%' characters behind them
PercentPrefixes(s) ==
    {SubSeq(s, 1, k) : k \in {j \in 0..Len(s) : \A i \in (j + 1)..Len(s) : s[i] = "%"}}

\* C7 as stated: for every string "x%" where x parses as a number the stored
\* percent_owned is exactly x, and for every string that does not parse (as a
\* number with an optional trailing '%') the stored percent_owned is 0.0.
C7_AsStated ==
    (edges.called /\ IsOwnershipFrame(df) /\ HasStringCell("Percent Owned")) =>
        LET s == df[1]["Percent Owned"].s
        IN  /\ (EndsWithPercent(s) /\ floatStr(Front(s)).ok) =>
                   StoredPercent = PyNum(floatStr(Front(s)).v)
            /\ ~ParsesAsPercentage(s) => StoredPercent = PyNum(0)

\* C7 amended: for every string "x%" where x parses as a number the stored
\* percent_owned is exactly x; a string followed by any number of '%'
\* characters stores the number in front of them (so "1%%" stores 1.0); and
\* only a string with no number in front of its trailing '%' characters
\* stores 0.0.
C7_PercentNormalized ==
    (edges.called /\ IsOwnershipFrame(df) /\ HasStringCell("Percent Owned")) =>
        LET s == df[1]["Percent Owned"].s
        IN  /\ (EndsWithPercent(s) /\ floatStr(Front(s)).ok) =>
                   StoredPercent = PyNum(floatStr(Front(s)).v)
            /\ \A p \in PercentPrefixes(s) :
                   floatStr(p).ok => StoredPercent = PyNum(floatStr(p).v)
            /\ (\A p \in PercentPrefixes(s) : ~floatStr(p).ok) => StoredPercent = PyNum(0)

C7_Witness ==
    /\ edges.called /\ IsOwnershipFrame(df) /\ HasStringCell("Percent Owned")
    /\ df[1]["Percent Owned"] = PyStr(<<"1", "0", "%">>)
    /\ StoredPercent = PyNum(10)

\* digits, with a comma exactly before every group of three digits counted
\* from the right
Grouped(s) ==
    /\ s # <<>>
    /\ s[1] \in Digits
    /\ \A i \in 1..Len(s) :
           IF (Len(s) - i) % 4 = 3 THEN s[i] = "," ELSE s[i] \in Digits

WithoutCommas(s) == SelectSeq(s, LAMBDA c : c # ",")

\* C8: for every amount string made of digits with thousands-separator commas
\* the stored amount is the numeric value of the string with the commas
\* removed, and for every malformed string (one that is no number once its
\* commas are removed) the stored amount is 0.0.
C8_AmountNormalized ==
    (edges.called /\ IsTransactionFrame(df) /\ HasStringCell("Principal Amount")) =>
        LET s == df[1]["Principal Amount"].s
        IN  /\ Grouped(s) => StoredAmount = PyNum(DecVal(WithoutCommas(s)))
            /\ ~floatStr(WithoutCommas(s)).ok => StoredAmount = PyNum(0)

C8_Witness ==
    /\ edges.called /\ IsTransactionFrame(df) /\ HasStringCell("Principal Amount")
    /\ df[1]["Principal Amount"] = PyStr(<<"1", ",", "0", "0", "0">>)
    /\ StoredAmount = PyNum(1000)

(***************************************************************************)
(* Graph assembly: C1 - C6, C9                                             *)
(***************************************************************************)
Loaded == Focus \in DOMAIN graphs
Files == disk[Focus]
Rows(kind) == IF kind \in DOMAIN Files THEN Files[kind].rows ELSE <<>>
Blank(code) == code \in {"", NaN}
Last(S) == CHOOSE i \in S : \A j \in S : j <= i

\* the rows of a file that name the ordered pair (a, b)
OwnIdx(a, b) ==
    {i \in 1..Len(Rows("ownership")) :
        /\ Rows("ownership")[i]["Owner Entity Code"] = a
        /\ Rows("ownership")[i]["Owned Entity Code"] = b}
TxnIdx(a, b) ==
    {i \in 1..Len(Rows("transactions")) :
        /\ Rows("transactions")[i]["Creditor Entity Code"] = a
        /\ Rows("transactions")[i]["Debtor Entity Code"] = b}

\* C1: for every ordered pair (a, b) of entity codes named by an ownership
\* record and by a transaction record, the assembled graph has the edge a->b
\* once, and its attributes are the union of the fields of the (last) two
\* records, the transaction record's value kept for every shared key.
C1_MergedEdge ==
    Loaded =>
        \A a \in Codes, b \in Codes :
            (OwnIdx(a, b) # {} /\ TxnIdx(a, b) # {}) =>
                /\ Cardinality({e \in EdgeSet(graphs[Focus]) : e[1] = a /\ e[2] = b}) = 1
                /\ LET own == OwnershipEdge(Rows("ownership")[Last(OwnIdx(a, b))], Focus)[3]
                       txn == TransactionEdge(Rows("transactions")[Last(TxnIdx(a, b))], Focus)[3]
                       d == graphs[Focus].edge[<<a, b>>]
                   IN  /\ DOMAIN d = DOMAIN own \cup DOMAIN txn
                       /\ \A k \in DOMAIN d :
                              d[k] = IF k \in DOMAIN txn THEN txn[k] ELSE own[k]

C1_Witness ==
    /\ Loaded
    /\ OwnIdx("P", "S") # {} /\ TxnIdx("P", "S") # {}
    /\ graphs[Focus].edge[<<"P", "S">>]["relationship_type"] = "transaction"
    /\ graphs[Focus].edge[<<"P", "S">>]["percent_owned"] = PyNum(1)
    /\ graphs[Focus].edge[<<"P", "S">>]["amount"] = PyNum(10)

\* C2: an ownership record whose owner code is blank or missing adds no
\* edge, and a transaction record whose creditor or debtor code is blank or
\* missing adds no edge: every edge of the assembled graph is the pair of an
\* ownership record with an owner code or of a transaction record with both
\* codes.
C2_BlankCodesAddNoEdge ==
    Loaded =>
        \A e \in EdgeSet(graphs[Focus]) :
            \/ ~Blank(e[1]) /\ OwnIdx(e[1], e[2]) # {}
            \/ ~Blank(e[1]) /\ ~Blank(e[2]) /\ TxnIdx(e[1], e[2]) # {}

C2_Witness ==
    /\ Loaded
    /\ \E i \in 1..Len(Rows("ownership")) : Blank(Rows("ownership")[i]["Owner Entity Code"])
    /\ \E i \in 1..Len(Rows("transactions")) :
           Blank(Rows("transactions")[i]["Debtor Entity Code"])
    /\ EdgeSet(graphs[Focus]) = {}

\* the codes of the roster: the non-blank cells of the column the code reads
RosterIdx(code) ==
    {i \in 1..Len(Rows("structure")) :
        /\ "Legal Entity Code (#)" \in DOMAIN Rows("structure")[i]
        /\ Rows("structure")[i]["Legal Entity Code (#)"] = code}
RosterCodes == {code \in Codes : RosterIdx(code) # {}}

\* C3 as stated: every ownership or transaction record with an endpoint that
\* is no roster node is dropped, so every node of the assembled graph, and
\* every endpoint of its edges, is a code of a roster record.
C3_AsStated ==
    Loaded =>
        /\ NodeSet(graphs[Focus]) \subseteq RosterCodes
        /\ \A e \in EdgeSet(graphs[Focus]) : e[1] \in RosterCodes /\ e[2] \in RosterCodes

\* the files with the attribute records replaced by rows
WithAttributes(rows) == [k \in DOMAIN Files |-> IF k = "attributes" THEN File(rows) ELSE Files[k]]

\* C4: an attribute record whose entity code is no node of the graph creates
\* no node and leaves every node's fixed attributes and attribute bag as they
\* are: the graph has the nodes it has without any attribute record, and is
\* the graph assembled without the records of unknown codes.
C4_UnknownCodeNoEffect ==
    Loaded =>
        /\ NodeSet(graphs[Focus]) = NodeSet(create_company_graph(WithAttributes(<<>>), Focus))
        /\ graphs[Focus].nodes = create_company_graph(WithAttributes(<<>>), Focus).nodes
        /\ graphs[Focus] =
               create_company_graph(
                   WithAttributes(SelectSeq(Rows("attributes"),
                       LAMBDA row : row["Entity Code"] \in NodeSet(graphs[Focus]))), Focus)

C4_Witness ==
    /\ Loaded
    /\ \E i \in 1..Len(Rows("attributes")) :
           Rows("attributes")[i]["Entity Code"] \notin NodeSet(graphs[Focus])
    /\ \E i \in 1..Len(Rows("attributes")) :
           Rows("attributes")[i]["Entity Code"] \in NodeSet(graphs[Focus])
    /\ "attributes" \in DOMAIN graphs[Focus].node["P"]

\* C5 as stated: an attribute record whose entity code is absent from the
\* roster is dropped, so no node carries an attribute-bag entry of it, even
\* when the code is an endpoint of an ownership or transaction record.
C5_AsStated ==
    Loaded =>
        \A i \in 1..Len(Rows("attributes")) :
            LET code == Rows("attributes")[i]["Entity Code"]
            IN  (code \notin RosterCodes /\ code \in NodeSet(graphs[Focus])) =>
                    "attributes" \notin DOMAIN graphs[Focus].node[code]

\* the fixed attributes of a node
Fixed(data) == [k \in DOMAIN data \ {"attributes"} |-> data[k]]

\* C6 as stated: every roster record whose `Legal Entity Code` column holds
\* a non-blank code yields a node keyed by that code.
C6_AsStated ==
    Loaded =>
        \A i \in 1..Len(Rows("structure")) :
            LET row == Rows("structure")[i]
            IN  ("Legal Entity Code" \in DOMAIN row /\ ~Blank(row["Legal Entity Code"])) =>
                    row["Legal Entity Code"] \in NodeSet(graphs[Focus])

\* C6 amended: every roster record whose `Legal Entity Code (#)` column holds
\* a non-blank code yields a node keyed by that code whose fixed attributes
\* are those of the last roster record with that code; roster records with a
\* blank or missing code yield no node (every node is such a code or an
\* endpoint of an edge).
C6_RosterNodes ==
    Loaded =>
        /\ \A code \in RosterCodes :
               /\ code \in NodeSet(graphs[Focus])
               /\ LET row == Rows("structure")[Last(RosterIdx(code))]
                      data == Fixed(graphs[Focus].node[code])
                  IN  /\ data = NodeAttrs(row, Focus)
                      /\ data["entity_name"] = row["Entity Name"]
                      /\ data["company"] = Focus
        /\ \A n \in NodeSet(graphs[Focus]) :
               \/ n \in RosterCodes
               \/ \E e \in EdgeSet(graphs[Focus]) : n = e[1] \/ n = e[2]

C6_Witness ==
    /\ Loaded
    /\ Len(Rows("structure")) = 2
    /\ RosterIdx("P") = {1, 2}
    /\ Rows("structure")[1]["Entity Name"] = "A"
    /\ Rows("structure")[2]["Entity Name"] = "B"
    /\ graphs[Focus].node["P"]["entity_name"] = "B"

\* C9 as stated: whatever the Percent Owned or Principal Amount cell of a
\* record that is not skipped holds, the stored percent_owned / amount is a
\* number.
C9_AsStated ==
    Loaded =>
        \A e \in EdgeSet(graphs[Focus]) :
            LET d == graphs[Focus].edge[e]
            IN  /\ "percent_owned" \in DOMAIN d => d["percent_owned"].t = "num"
                /\ "amount" \in DOMAIN d => d["amount"].t = "num"

(***************************************************************************)
(* Node sizing: C10                                                        *)
(***************************************************************************)
\* the matched attribute value of a node of the sized graph
Matched(n) == NodeValue(sizes.G, n, size_attribute).v
SizeIs(n, k) == sizes.sizes[n].t = "num" /\ sizes.sizes[n].num = k * sizes.sizes[n].den

\* C10 as stated: if every node's matched value is 0 (or none matches) every
\* node's size is exactly 60; in every other case the node with the minimum
\* matched value gets size 20 and the node with the maximum gets size 100.
C10_AsStated ==
    (sizes.called /\ sizes.G.nodes # <<>>) =>
        /\ sizes.raised = "none"
        /\ DOMAIN sizes.sizes = NodeSet(sizes.G)
        /\ IF \A n \in NodeSet(sizes.G) : Matched(n) = PyNum(0)
           THEN \A n \in NodeSet(sizes.G) : SizeIs(n, 60)
           ELSE \A n \in NodeSet(sizes.G) :
                   /\ (\A m \in NodeSet(sizes.G) : ~lt(Matched(m), Matched(n))) => SizeIs(n, min_size)
                   /\ (\A m \in NodeSet(sizes.G) : ~gt(Matched(m), Matched(n))) => SizeIs(n, max_size)

(***************************************************************************)
(* Structural analytics of SpecAnalytics.                                  *)
(***************************************************************************)
Dashboard == call.op = "create_corporate_metrics_dashboard"
Summary == call.op = "network_analysis_summary"

\* the ownership-typed subgraph: its edges and the nodes they touch
OwnershipTyped(G) == {e \in DOMAIN G.edge : G.edge[e].relationship_type = "ownership"}
Touched(E) == {e[1] : e \in E} \cup {e[2] : e \in E}
RootsOf(E) == {n \in Touched(E) : ~\E e \in E : e[2] = n}
LeavesOf(E) == {n \in Touched(E) : ~\E e \in E : e[1] = n}

\* a walk of k edges from a to b
Walk(E, a, b, k) ==
    \E p \in [1..(k + 1) -> Touched(E)] :
        /\ p[1] = a
        /\ p[k + 1] = b
        /\ \A i \in 1..k : <<p[i], p[i + 1]>> \in E
Reachable(E, a) == {b \in Touched(E) : \E k \in 0..Cardinality(Touched(E)) : Walk(E, a, b, k)}
Distance(E, a, b) ==
    CHOOSE k \in 0..Cardinality(Touched(E)) :
        Walk(E, a, b, k) /\ \A j \in 0..(k - 1) : ~Walk(E, a, b, j)
\* E is one chain p[1] -> p[2] -> ... -> p[n] of n distinct entities
IsChain(E, p) ==
    /\ Len(p) >= 2
    /\ \A i, j \in 1..Len(p) : p[i] = p[j] => i = j
    /\ E = {<<p[i], p[i + 1]>> : i \in 1..(Len(p) - 1)}

ExampleGroup ==
    /\ disk[Focus]["structure"].rows = <<EntityP, EntityS>>
    /\ disk[Focus]["ownership"].rows = <<OwnRow("P", "S", Sixty)>>
    /\ disk[Focus]["transactions"].rows = <<>>

NoRepeats(list) == \A i, j \in 1..Len(list) : list[i] = list[j] => i = j
AsSet(list) == {list[i] : i \in 1..Len(list)}

\* C12: the roots (leaves) the summary computes are exactly the nodes touched
\* by an ownership-typed edge that have no incoming (outgoing) ownership-typed
\* edge; roster {P, S} with P -> S at "60%" gives 2 nodes, 1 ownership edge
\* with percent_owned 60.0, roots {P}, leaves {S} and depth 1.
C12_RootsAndLeaves ==
    /\ Summary =>
          \A c \in DOMAIN call.value :
              LET E == OwnershipTyped(graphs[c])
                  roots == call.value[c].root_nodes
                  leaves == call.value[c].leaf_nodes
              IN  /\ NoRepeats(roots) /\ AsSet(roots) = RootsOf(E)
                  /\ NoRepeats(leaves) /\ AsSet(leaves) = LeavesOf(E)
                  /\ (c = Focus /\ ExampleGroup) => roots = <<"P">> /\ leaves = <<"S">>
    /\ (graphs # EmptyDict /\ ExampleGroup) =>
          LET G == graphs[Focus]
          IN  /\ DOMAIN G.node = {"P", "S"}
              /\ DOMAIN G.edge = {<<"P", "S">>}
              /\ G.edge[<<"P", "S">>].percent_owned = PyNum(60)
              /\ G.edge[<<"P", "S">>].relationship_type = "ownership"
    /\ (Dashboard /\ Focus \in DOMAIN call.value /\ ExampleGroup) =>
          call.value[Focus].hierarchy_depth = 1

C12_Witness ==
    /\ Summary
    /\ ExampleGroup
    /\ Focus \in DOMAIN call.value
    /\ call.value[Focus].root_nodes = <<"P">>
    /\ call.value[Focus].leaf_nodes = <<"S">>

(***************************************************************************)
(* The per-group views and the registry.                                   *)
(***************************************************************************)
PerGroupOps ==
    {"create_ownership_hierarchy_plot", "create_financial_flow_plot",
     "create_multilayer_network_plot", "create_specialized_model_visualization",
     "_create_tech_hierarchy_view", "_create_portfolio_holding_view",
     "_create_matrix_organization_view", "_create_franchise_network_view"}

\* C13: a per-group view called with a name that is not a key of self.graphs
\* raises ValueError and yields nothing, and the step leaves self.graphs (the
\* registry and every stored graph) as it was.
C13_UnknownGroupRaises ==
    [][(/\ call' # call
        /\ call'.op \in PerGroupOps
        /\ call'.company_name \notin DOMAIN graphs)
       => (/\ call'.raised = "ValueError"
           /\ call'.value = EmptyDict
           /\ graphs' = graphs)]_vars

C13_Witness ==
    /\ graphs # EmptyDict
    /\ call.op = "create_specialized_model_visualization"
    /\ call.company_name = Unlisted
    /\ call.raised = "ValueError"

(***************************************************************************)
(* Record sets that are missing or cannot be read (SpecLoad).              *)
(***************************************************************************)
Missing(kind) == kind \notin DOMAIN Files
Failed(kind) == kind \in DOMAIN Files /\ ~Files[kind].readable
Read(kind) == kind \in DOMAIN Files /\ Files[kind].readable
TypedEdges(G, kind) == {e \in DOMAIN G.edge : G.edge[e].relationship_type = kind}

\* C14 as stated: whatever sets are missing, the assembled graph has no node
\* when the roster is missing, no ownership-typed edge when the ownership
\* set is missing and no transaction-typed edge when the transaction set is
\* missing.
C14_AsStated ==
    Loaded =>
        /\ Missing("structure") => DOMAIN graphs[Focus].node = {}
        /\ Missing("ownership") => TypedEdges(graphs[Focus], "ownership") = {}
        /\ Missing("transactions") => TypedEdges(graphs[Focus], "transaction") = {}

\* the files of the group with every file that cannot be read taken away
AsIfMissing(files) == [k \in {x \in DOMAIN files : files[x].readable} |-> files[k]]

\* the ordered pairs named by the rows of an edge file
PairsOf(kind, from, to) ==
    {<<Rows(kind)[i][from], Rows(kind)[i][to]>> : i \in 1..Len(Rows(kind))}

\* C15: when a file of the group cannot be read, the sets that can be read
\* are still loaded, and the graph is the one assembled from the same files
\* with the failing file absent.
C15_UnreadableAsMissing ==
    Loaded =>
        /\ graphs[Focus] = create_company_graph(AsIfMissing(Files), Focus)
        /\ Read("structure") =>
              {Rows("structure")[i]["Legal Entity Code (#)"] :
                  i \in 1..Len(Rows("structure"))} \subseteq DOMAIN graphs[Focus].node
        /\ Read("ownership") =>
              PairsOf("ownership", "Owner Entity Code", "Owned Entity Code")
                  \subseteq DOMAIN graphs[Focus].edge
        /\ Read("transactions") =>
              PairsOf("transactions", "Creditor Entity Code", "Debtor Entity Code")
                  \subseteq DOMAIN graphs[Focus].edge
        /\ (Read("attributes") /\ Read("structure")) =>
              \A i \in 1..Len(Rows("attributes")) :
                  LET code == Rows("attributes")[i]["Entity Code"]
                  IN  code \in DOMAIN graphs[Focus].node =>
                          "attributes" \in DOMAIN graphs[Focus].node[code]

C15_Witness ==
    /\ Loaded
    /\ Read("structure")
    /\ Failed("ownership")
    /\ Read("transactions")
    /\ TypedEdges(graphs[Focus], "transaction") # {}
    /\ TypedEdges(graphs[Focus], "ownership") = {}

(***************************************************************************)
(* Analytics and classification leave the graphs alone.                    *)
(***************************************************************************)
\* C16: a step of get_node_sizes, of the metrics (depth, density,
\* centrality), of the root and leaf computation or of a classifier leaves
\* every stored graph with the nodes, edges, node attributes and edge
\* attributes it had, so the graphs stay as assembly left them.
C16_AnalyticsArePure ==
    [][(call' # call \/ sizes' # sizes) => graphs' = graphs]_vars

C16_Witness ==
    /\ sizes.called
    /\ call.op = "_create_matrix_organization_view"
    /\ call.company_name = Focus
    /\ call.raised = "none"
    /\ graphs[Focus] = create_company_graph(disk[Focus], Focus)
    /\ DOMAIN graphs[Focus].edge # {}

(***************************************************************************)
(* Edges of the assembled graph: C17, C20                                  *)
(***************************************************************************)
\* the ordered pairs of the records that are not skipped
KeptOwnPairs ==
    {<<a, b>> \in CodeCells \X CodeCells : ~Blank(a) /\ OwnIdx(a, b) # {}}
KeptTxnPairs ==
    {<<a, b>> \in CodeCells \X CodeCells : ~Blank(a) /\ ~Blank(b) /\ TxnIdx(a, b) # {}}
LastOwnAttrs(e) == OwnershipEdge(Rows("ownership")[Last(OwnIdx(e[1], e[2]))], Focus)[3]
LastTxnAttrs(e) == TransactionEdge(Rows("transactions")[Last(TxnIdx(e[1], e[2]))], Focus)[3]

\* C17: the graph has one edge for each ordered pair that a kept record
\* names and no other; records repeated for a pair leave one edge that
\* carries the attributes of the last of them; (a, b) and (b, a) are two
\* edges, each with the attributes of its own records.
C17_OneEdgePerPair ==
    Loaded =>
        LET G == graphs[Focus]
        IN  /\ DOMAIN G.edge = KeptOwnPairs \cup KeptTxnPairs
            /\ Cardinality(DOMAIN G.edge) <= Len(Rows("ownership")) + Len(Rows("transactions"))
            /\ \A e \in KeptOwnPairs \ KeptTxnPairs : G.edge[e] = LastOwnAttrs(e)
            /\ \A e \in KeptTxnPairs \ KeptOwnPairs : G.edge[e] = LastTxnAttrs(e)
            /\ \A e \in KeptOwnPairs \cap KeptTxnPairs :
                  G.edge[e] = LastTxnAttrs(e) @@ LastOwnAttrs(e)

C17_Witness ==
    /\ Loaded
    /\ Len(Rows("ownership")) = 2
    /\ Rows("ownership")[1]["Percent Owned"] = PyStr(<<"x">>)
    /\ Rows("ownership")[2]["Percent Owned"] = PyStr(<<"1", "%">>)
    /\ OwnIdx("P", "S") = {1, 2}
    /\ DOMAIN graphs[Focus].edge = {<<"P", "S">>}
    /\ graphs[Focus].edge[<<"P", "S">>].percent_owned = PyNum(1)

\* C20: the relationship_type of an edge is that of the record applied to
\* it last.  All ownership records are applied before all transaction
\* records, so an edge named by a kept transaction record ends with
\* relationship_type "transaction", with or without an ownership record
\* for the same ordered pair, and every other edge ends with "ownership".
C20_LastRecordTypesEdge ==
    Loaded =>
        LET G == graphs[Focus]
        IN  /\ \A e \in KeptTxnPairs :
                  /\ e \in DOMAIN G.edge
                  /\ G.edge[e].relationship_type = "transaction"
                  /\ G.edge[e].relationship_type = LastTxnAttrs(e).relationship_type
            /\ \A e \in DOMAIN G.edge \ KeptTxnPairs :
                  /\ e \in KeptOwnPairs
                  /\ G.edge[e].relationship_type = "ownership"
                  /\ G.edge[e].relationship_type = LastOwnAttrs(e).relationship_type

\* an edge that an ownership record made and a transaction record then
\* updated: it keeps the ownership fields and is typed by the transaction
C20_Witness ==
    /\ Loaded
    /\ \E e \in KeptOwnPairs \cap KeptTxnPairs :
          /\ LastOwnAttrs(e).relationship_type = "ownership"
          /\ "percent_owned" \in DOMAIN graphs[Focus].edge[e]
          /\ graphs[Focus].edge[e].relationship_type = "transaction"

(***************************************************************************)
(* The attribute bag: C18                                                  *)
(***************************************************************************)
\* the attribute rows of entity code n, and those of them named `name`
AttrIdx(n) == {i \in 1..Len(Rows("attributes")) : Rows("attributes")[i]["Entity Code"] = n}
NamedIdx(n, name) == {i \in AttrIdx(n) : Rows("attributes")[i]["Attribute Name"] = name}
NamesSeen(n) == {Rows("attributes")[i]["Attribute Name"] : i \in AttrIdx(n)}
Column(row, col, default) == IF col \in DOMAIN row THEN row[col] ELSE default

\* C18: the bag of a node holds exactly the attribute names of the records
\* with its code, each with the value, type and category of the last such
\* record of that name, type "Text" and category "General" when the record
\* has none; a node with no record has no bag.
C18_BagLastWriteWins ==
    Loaded =>
        \A n \in DOMAIN graphs[Focus].node :
            LET data == graphs[Focus].node[n]
            IN  IF NamesSeen(n) = {} THEN "attributes" \notin DOMAIN data
                ELSE /\ "attributes" \in DOMAIN data
                     /\ DOMAIN data["attributes"].val = NamesSeen(n)
                     /\ \A name \in NamesSeen(n) :
                           LET row == Rows("attributes")[Last(NamedIdx(n, name))]
                               entry == data["attributes"].val[name]
                           IN  /\ entry.value = row["Attribute Value"]
                               /\ entry.type = Column(row, "Value Type", "Text")
                               /\ entry.category = Column(row, "Category", "General")

C18_Witness ==
    /\ Loaded
    /\ Rows("attributes") =
           <<AttrRowTyped, AttrRow("P", <<"R", "e", "v">>, PyStr(<<"1", ",", "0">>))>>
    /\ graphs[Focus].node["P"]["attributes"].val[PyStr(<<"R", "e", "v">>)] =
           [value |-> PyStr(<<"1", ",", "0">>), type |-> "Text", category |-> "General"]

(***************************************************************************)
(* Independence of the groups: C19                                         *)
(***************************************************************************)
InProgress(c) == work[c].pc \in {"structure", "ownership", "transactions", "attributes"}

\* C19: whatever the order and interleaving of the assemblies of the groups,
\* the graph stored for a group is the graph create_company_graph builds from
\* that group's files alone, and a step of one group's assembly leaves every
\* entry the registry already holds as it was.
C19_GroupsIndependent ==
    [][/\ \A c \in DOMAIN graphs' : graphs'[c] = create_company_graph(disk[c], c)
       /\ \A c \in DOMAIN graphs : c \in DOMAIN graphs' /\ graphs'[c] = graphs[c]]_vars

\* the graph of one group is stored while the assembly of another, whose
\* files use the same entity codes, is under way with a different graph
C19_Witness ==
    /\ Focus \in DOMAIN graphs
    /\ graphs[Focus].edge # EmptyDict
    /\ InProgress(Second)
    /\ work[Second].G.edge # EmptyDict
    /\ work[Second].G # graphs[Focus]
    /\ "P" \in DOMAIN graphs[Focus].node /\ "P" \in DOMAIN work[Second].G.node

(***************************************************************************)
(* Transaction records and the ownership analytics: C21                    *)
(***************************************************************************)
\* the files of a group without its transaction records, and the graph
\* assembled from them
WithoutTransactions(files) == [k \in DOMAIN files \ {"transactions"} |-> files[k]]
OwnershipOnlyGraph(c) == create_company_graph(WithoutTransactions(disk[c]), c)
OwnershipSubgraph(G) == edge_subgraph(G, EdgesOfType(G, "ownership"))

\* C21: the hierarchy depth, the roots and the leaves computed for a group
\* from the graph assembled with its transaction records are those computed
\* from the graph assembled from the same roster and ownership records with
\* no transaction record.
C21_AsStated ==
    /\ Dashboard =>
          \A c \in DOMAIN call.value :
              call.value[c].hierarchy_depth = hierarchy_depth(OwnershipOnlyGraph(c))
    /\ Summary =>
          \A c \in DOMAIN call.value :
              /\ call.value[c].root_nodes = root_nodes(OwnershipSubgraph(OwnershipOnlyGraph(c)))
              /\ call.value[c].leaf_nodes = leaf_nodes(OwnershipSubgraph(OwnershipOnlyGraph(c)))

(***************************************************************************)
(* The value get_node_sizes takes for a node: C22; its totality: C23       *)
(***************************************************************************)
\* the positions of the bag entries of node n whose name contains the
\* substring, case-insensitively
MatchIdx(n) ==
    LET data == sizes.G.node[n]
        bag == IF "attributes" \in DOMAIN data THEN data["attributes"] ELSE EmptyBag
    IN  {i \in 1..Len(bag.keys) :
            /\ isstr(bag.keys[i])
            /\ contains(lower(bag.keys[i].s), lower(size_attribute))}
FirstMatchValue(n) ==
    LET bag == sizes.G.node[n]["attributes"]
        i == CHOOSE j \in MatchIdx(n) : \A k \in MatchIdx(n) : j <= k
    IN  bag.val[bag.keys[i]].value

\* C22: the value taken for a node is the parsed value of the first entry of
\* its bag whose name contains the substring, 0 if that value does not
\* parse, and 0 for a node with no such entry.
C22_AsStated ==
    (sizes.called /\ sizes.raised # "AttributeError") =>
        \A n \in NodeSet(sizes.G) :
            Matched(n) = IF MatchIdx(n) = {} THEN PyNum(0)
                         ELSE LET f == floatOfValue(FirstMatchValue(n))
                              IN  IF f.ok THEN f.v ELSE PyNum(0)

\* C23: get_node_sizes raises nothing and returns a size for every node of
\* the graph, whatever the graph: empty, of one node, or with the same
\* positive matched value on every node.
C23_AsStated ==
    sizes.called =>
        /\ sizes.raised = "none"
        /\ DOMAIN sizes.sizes = NodeSet(sizes.G)

(***************************************************************************)
(* The classification passes: C24 - C28                                    *)
(***************************************************************************)
\* the pass op has run on the assembled graph of the group
ViewOf(op) ==
    /\ Loaded
    /\ call.op = op
    /\ call.company_name = Focus
    /\ call.raised # NotFound.raised
Returned == call.raised = "none"
\* the text of a cell; an empty cell has none
Text(cell) == IF isstr(cell) THEN cell.s ELSE <<>>
NameText(G, n) == Text(entity_name_of(G, n))
TypeText(G, n) == Text(entity_type_of(G, n))
\* the buckets of a returned pass that hold node n
BucketsWith(buckets, n) == {b \in DOMAIN buckets : n \in Range(buckets[b])}

TopLevelName == <<"T", "e", "c", "h", "G", "l", "o", "b", "a", "l", " ", "I", "n", "c">>
HoldingToken == <<"H", "o", "l", "d", "i", "n", "g">>
OperationsToken == <<"O", "p", "e", "r", "a", "t", "i", "o", "n", "s">>
CountrySuffixes == {<<"L", "t", "d">>, <<"G", "m", "b", "H">>, <<"S", "A", "S">>, <<"K", ".", "K", ".">>}

\* the tier of the first predicate that matches, with the display name
\* compared to the top-level name for equality
StatedTier(G, n) ==
    IF NameText(G, n) = TopLevelName THEN "0"
    ELSE IF contains(TypeText(G, n), HoldingToken) \/ contains(NameText(G, n), HoldingToken)
         THEN "1"
    ELSE IF contains(TypeText(G, n), OperationsToken) \/ AnyIn(CountrySuffixes, NameText(G, n))
         THEN "2"
    ELSE "3"

\* C24: the tier pass puts every node of the graph in exactly one of the four
\* tiers, that of the first predicate that matches: display name equal to
\* the top-level name; "Holding" in the entity type or name; "Operations" in
\* the type or a country suffix in the name; otherwise the specialized tier.
C24_AsStated ==
    ViewOf("_create_tech_hierarchy_view") =>
        /\ Returned
        /\ \A n \in NodeSet(graphs[Focus]) :
              BucketsWith(call.value, n) = {StatedTier(graphs[Focus], n)}

InDegreeZero(G) == {n \in NodeSet(G) : in_degree(G, n) = 0}

\* C25: whatever the graph, with several nodes of in-degree 0 as well, no
\* node of in-degree 0 is in a sector bucket of the portfolio pass.
C25_AsStated ==
    (ViewOf("_create_portfolio_holding_view") /\ Returned) =>
        \A n \in InDegreeZero(graphs[Focus]) : BucketsWith(call.value.sectors, n) = {}

MatrixBuckets == [b \in {"brands", "geographic", "corporate"} |-> call.value[b]]

\* C26: the matrix pass covers the graph: every node is the one designated
\* parent or is in exactly one of the Brand, Geographic and Corporate
\* buckets, and a node whose name has a brand keyword and a geography
\* keyword is in Brand.
C26_AsStated ==
    ViewOf("_create_matrix_organization_view") =>
        /\ Returned
        /\ \A n \in NodeSet(graphs[Focus]) :
              /\ IF n = call.value.parent
                 THEN BucketsWith(MatrixBuckets, n) = {}
                 ELSE Cardinality(BucketsWith(MatrixBuckets, n)) = 1
              /\ (/\ n # call.value.parent
                  /\ AnyIn(BrandKeywords, lower(NameText(graphs[Focus], n)))
                  /\ AnyIn(GeographyKeywords, lower(NameText(graphs[Focus], n))))
                 => BucketsWith(MatrixBuckets, n) = {"brands"}

FranchiseBuckets ==
    [b \in {"concentrate_ops", "bottling_ops", "regional_ops", "support_functions"} |->
        call.value[b]]
\* the bucket of the first predicate the name of n matches, "none" if none
StatedRole(G, n) ==
    LET name == NameText(G, n)
    IN  IF AnyIn(ConcentrateKeywords, lower(name)) THEN {"concentrate_ops"}
        ELSE IF AnyIn(BottlingKeywords, lower(name)) THEN {"bottling_ops"}
        ELSE IF AnyIn(RegionTokens, name) THEN {"regional_ops"}
        ELSE IF AnyIn(SupportTokens, name) THEN {"support_functions"}
        ELSE {}

\* C27: in the franchise pass every node other than the HQ is in the bucket
\* of the first predicate it matches, in the order concentrate or formula,
\* bottling, region token, support token, and a node that matches none is in
\* none of the four buckets.
C27_AsStated ==
    ViewOf("_create_franchise_network_view") =>
        /\ Returned
        /\ \A n \in NodeSet(graphs[Focus]) \ {call.value.parent} :
              BucketsWith(FranchiseBuckets, n) = StatedRole(graphs[Focus], n)

\* the number of buckets of a pass that hold n, its parent counted as one
Holders(buckets, parent, n) ==
    Cardinality(BucketsWith(buckets, n)) + (IF n = parent THEN 1 ELSE 0)
Once(buckets) == \A b \in DOMAIN buckets : NoRepeats(buckets[b])

\* C28: in each of the four passes no entity code is in more than one bucket
\* of the pass, the designated parent or HQ counting as a bucket, and none is
\* twice in a bucket.
C28_BucketsDisjoint ==
    Returned =>
        /\ ViewOf("_create_tech_hierarchy_view") =>
              /\ Once(call.value)
              /\ \A n \in NodeSet(graphs[Focus]) : Cardinality(BucketsWith(call.value, n)) <= 1
        /\ ViewOf("_create_portfolio_holding_view") =>
              /\ Once(call.value.sectors)
              /\ \A n \in NodeSet(graphs[Focus]) :
                    Holders(call.value.sectors, call.value.parent, n) <= 1
        /\ ViewOf("_create_matrix_organization_view") =>
              /\ Once(MatrixBuckets)
              /\ \A n \in NodeSet(graphs[Focus]) :
                    Holders(MatrixBuckets, call.value.parent, n) <= 1
        /\ ViewOf("_create_franchise_network_view") =>
              /\ Once(FranchiseBuckets)
              /\ \A n \in NodeSet(graphs[Focus]) :
                    Holders(FranchiseBuckets, call.value.parent, n) <= 1

\* a portfolio pass with a parent and two sectors in use
C28_Witness ==
    /\ ViewOf("_create_portfolio_holding_view")
    /\ Returned
    /\ call.value.parent = "P"
    /\ Cardinality(DOMAIN call.value.sectors) = 2
    /\ Cardinality(NodeSet(graphs[Focus])) = 3

(***************************************************************************)
(* Density of an assembled graph: C29                                      *)
(***************************************************************************)
SelfLoops(G) == {e \in EdgeSet(G) : e[1] = e[2]}
\* 0 <= num / den <= 1, den > 0
InUnitInterval(q) == 0 <= q.num /\ q.num <= q.den

\* C29: no assembled graph has a self-loop, and the density the summary
\* computes for it, edges / (nodes * (nodes - 1)) above one node and 0
\* otherwise, lies between 0 and 1.
C29_AsStated ==
    /\ \A c \in DOMAIN graphs : SelfLoops(graphs[c]) = {}
    /\ Summary => \A c \in DOMAIN call.value : InUnitInterval(call.value[c].density)

(***************************************************************************)
(* The apex the classifiers designate: C30                                 *)
(***************************************************************************)
\* what each pass designates for the graph of the group
PortfolioApex(G) == portfolio_sectors(G).value.parent
MatrixParent(G) == matrix_axes(G).value.parent
FranchiseHQ(G) == franchise_roles(G).value.parent

\* C30: when the ownership-typed subgraph of a group has exactly one root,
\* the portfolio, matrix and franchise passes all designate that node,
\* whatever transaction records the group has.
C30_AsStated ==
    \A op \in {"_create_portfolio_holding_view", "_create_matrix_organization_view",
               "_create_franchise_network_view"} :
        (ViewOf(op) /\ Cardinality(RootsOf(OwnershipTyped(graphs[Focus]))) = 1) =>
            /\ Returned
            /\ RootsOf(OwnershipTyped(graphs[Focus])) = {call.value.parent}

====
